---- MODULE Spec2Model ----
(***************************************************************************)
(* Model of the helper-thread task coordinator of js/src/vm/HelperThreads.cpp *)
(* (GlobalHelperThreadState): worklists, the running-task registry          *)
(* helperTasks, the admission predicates canStart<Kind>, the selector list, *)
(* runOneTask / runTaskLocked, dispatch, and the producer-side cancel and   *)
(* wait operations.                                                          *)
(*                                                                           *)
(* Every action is one section of code executed with gHelperThreadLock      *)
(* held; a task body (the part run under AutoUnlockHelperThreadState) lies   *)
(* between TaskStart and TaskReturn, and a producer blocked in wait(lock)    *)
(* lies between two steps of its operation.                                  *)
(***************************************************************************)
EXTENDS Integers, Sequences, FiniteSets, TLC

(***************************************************************************)
(* Bounds of the model.                                                      *)
(***************************************************************************)
\* number of tasks the producer submits in one behaviour
MaxTasks == 2

(***************************************************************************)
(* Program constants.                                                        *)
(***************************************************************************)
MaxTier2GeneratorTasks == 1
Tier2Backlog == 20

NoTask == 0

\* js::ThreadType values used as task kinds (HelperThreadTask::threadType()).
GCPARALLEL == "GCPARALLEL"
ION == "ION"
WASM_COMPILE_TIER1 == "WASM_COMPILE_TIER1"
WASM_COMPILE_TIER2 == "WASM_COMPILE_TIER2"
WASM_GENERATOR_TIER2 == "WASM_GENERATOR_TIER2"
PROMISE_TASK == "PROMISE_TASK"
PARSE == "PARSE"
DELAZIFY == "DELAZIFY"
DELAZIFY_FREE == "DELAZIFY_FREE"
COMPRESS == "COMPRESS"
ION_FREE == "ION_FREE"

ThreadTypes ==
  {GCPARALLEL, ION, WASM_COMPILE_TIER1, WASM_COMPILE_TIER2,
   WASM_GENERATOR_TIER2, PROMISE_TASK, PARSE, DELAZIFY, DELAZIFY_FREE,
   COMPRESS, ION_FREE}

\* Kinds whose canStart predicate passes isMaster = true.
MasterKinds ==
  {WASM_GENERATOR_TIER2, PROMISE_TASK, PARSE, DELAZIFY, DELAZIFY_FREE}

\* Kinds a producer submits (a FreeDelazifyTask is created by a worker).
SubmitKinds == ThreadTypes \ {DELAZIFY_FREE}

\* Owners: runtimes 1 and 2; 0 stands for "no runtime" (DelazifyTask only).
Runtimes == {1, 2}
\* Zones 1 and 2 belong to runtime 1, zone 3 to runtime 2.
Zones == {1, 2, 3}
ZoneRuntime(z) == IF z = 3 THEN 2 ELSE 1
\* gcState() of a zone: zone 2 is being collected (state 1), the others not.
ZoneGCState(z) == IF z = 2 THEN 1 ELSE 0

VARIABLES
  hts,    \* the GlobalHelperThreadState object (gHelperThreadState)
  tasks,  \* the task objects, indexed by identity (creation order)
  prod,   \* the producer (main) thread: the operation it is inside
  pick    \* history: the last findHighestPriorityTask call

vars == <<hts, tasks, prod, pick>>

(***************************************************************************)
(* Sequence helpers (Vector / LinkedList / Fifo primitives).                 *)
(***************************************************************************)
Range(s) == {s[i] : i \in 1..Len(s)}

NoDup(s) == \A i, j \in 1..Len(s) : i # j => s[i] # s[j]

Front(s) == SubSeq(s, 1, Len(s) - 1)

Last(s) == s[Len(s)]

\* Vector::erase(&v[i]): later elements shift down.
EraseAt(s, i) == SubSeq(s, 1, i - 1) \o SubSeq(s, i + 1, Len(s))

\* Vector::eraseIfEqual(x)
EraseIfEqual(s, x) == SelectSeq(s, LAMBDA y : y # x)

\* GlobalHelperThreadState::remove(vector, &index): the last element is
\* moved into the vacated slot and the vector shrinks by one (the caller's
\* index is decremented so that the moved element is visited next).
Remove(s, i) ==
  IF i = Len(s) THEN Front(s) ELSE [Front(s) EXCEPT ![i] = Last(s)]

Min(a, b) == IF a < b THEN a ELSE b

Max(a, b) == IF a > b THEN a ELSE b

(***************************************************************************)
(* Thread-count policy.                                                      *)
(***************************************************************************)
\* A mutation of ClampDefaultCPUCount: no ceiling.
ClampDefaultCPUCountNoCeiling(cpuCount) == cpuCount

ClampDefaultCPUCount(cpuCount) == Min(cpuCount, 8)

ThreadCountForCPUCount(cpuCount) == Max(cpuCount, 2)

\* The state the constructor leaves for a probed CPU count.  poolThreads is
\* not a member of the object: it is the number of threads of the pool that
\* answers the dispatch callbacks (0 while there is no pool).
Constructed(probed) ==
  LET cpu == ClampDefaultCPUCount(probed)
      tc == ThreadCountForCPUCount(cpu)
  IN [cpuCount |-> cpu,
      threadCount |-> tc,
      gcParallelThreadCount |-> tc,
      totalCountRunningTasks |-> 0,
      runningTaskCount |-> [k \in ThreadTypes |-> 0],
      tasksPending_ |-> 0,
      pendingCallbacks |-> 0,
      poolThreads |-> 0,
      wasmTier2GeneratorsFinished_ |-> 0,
      isInitialized_ |-> FALSE,
      terminating_ |-> FALSE,
      dispatchTaskCallback |-> FALSE,
      useInternalThreadPool_ |-> FALSE,
      helperTasks |-> <<>>,
      gcParallelWorklist |-> <<>>,
      ionWorklist |-> <<>>,
      ionFinishedList |-> <<>>,
      ionFreeList |-> <<>>,
      wasmWorklist_tier1 |-> <<>>,
      wasmWorklist_tier2 |-> <<>>,
      wasmTier2GeneratorWorklist |-> <<>>,
      promiseHelperTasks |-> <<>>,
      parseWorklist |-> <<>>,
      parseFinishedList |-> <<>>,
      delazifyWorklist |-> <<>>,
      freeDelazifyTaskVector |-> <<>>,
      compressionPendingList |-> <<>>,
      compressionWorklist |-> <<>>,
      compressionFinishedList |-> <<>>]

\* ensureInitialized on a state that is not initialized, when it succeeds:
\* the internal pool is used if no callback was installed, and then
\* installs its own (MOZ_ASSERT(dispatchTaskCallback) after its
\* initialization).
EnsureInitialized(h) ==
  [h EXCEPT !.isInitialized_ = TRUE,
            !.useInternalThreadPool_ = ~h.dispatchTaskCallback,
            !.dispatchTaskCallback = TRUE,
            !.poolThreads = IF h.dispatchTaskCallback THEN @
                            ELSE h.threadCount]

\* A mutation of ensureInitialized: no early return when the state is
\* initialized already.
ensureInitializedNoEarlyReturn(h) == EnsureInitialized(h)

\* GlobalHelperThreadState::ensureInitialized()
ensureInitialized(h) == IF h.isInitialized_ THEN h ELSE EnsureInitialized(h)

(***************************************************************************)
(* Admission policy.                                                         *)
(***************************************************************************)
\* A mutation of checkTaskThreadLimit: the last-idle-thread rule is dropped.
CheckTaskThreadLimitNoMasterRule(h, threadType, maxThreads, isMaster) ==
  IF ~isMaster /\ maxThreads >= h.threadCount THEN TRUE
  ELSE IF h.runningTaskCount[threadType] >= maxThreads THEN FALSE
  ELSE IF h.threadCount - h.totalCountRunningTasks = 0 THEN FALSE
  ELSE TRUE

CheckTaskThreadLimit(h, threadType, maxThreads, isMaster) ==
  IF ~isMaster /\ maxThreads >= h.threadCount THEN TRUE
  ELSE IF h.runningTaskCount[threadType] >= maxThreads THEN FALSE
  ELSE LET idle == h.threadCount - h.totalCountRunningTasks
       IN IF idle = 0 THEN FALSE
          ELSE IF isMaster /\ idle = 1 THEN FALSE
          ELSE TRUE

\* IsHelperThreadSimulatingOOM is false outside the OOM-testing builds.
maxIonCompilationThreads(h) == h.threadCount

maxWasmCompilationThreads(h) == Min(h.cpuCount, h.threadCount)

\* A mutation of maxWasmTier2GeneratorThreads: no thread for the generator.
maxWasmTier2GeneratorThreadsNone(h) == 0

maxWasmTier2GeneratorThreads(h) == MaxTier2GeneratorTasks

maxPromiseHelperThreads(h) == Min(h.cpuCount, h.threadCount)

maxParseThreads(h) == Min(h.cpuCount, h.threadCount)

\* A mutation of maxCompressionThreads: as many as there are threads.
maxCompressionThreadsAll(h) == h.threadCount

maxCompressionThreads(h) == 1

maxGCParallelThreads(h) == h.gcParallelThreadCount

\* size_t(ceil(cpuCount / 3.0))
PhysCoresAvailable(h) == (h.cpuCount + 2) \div 3

\* A mutation of the thread budget of canStartWasmCompile: the backlog of
\* the tier-2 generator is ignored.
WasmCompileThreadsNoBacklog(h, mode) ==
  IF mode = WASM_COMPILE_TIER2 THEN PhysCoresAvailable(h)
  ELSE maxWasmCompilationThreads(h)

WasmCompileThreads(h, mode) ==
  LET tier2oversubscribed == Len(h.wasmTier2GeneratorWorklist) > Tier2Backlog
  IN IF mode = WASM_COMPILE_TIER2
       THEN (IF tier2oversubscribed THEN maxWasmCompilationThreads(h)
             ELSE PhysCoresAvailable(h))
       ELSE (IF tier2oversubscribed THEN 0 ELSE maxWasmCompilationThreads(h))

wasmWorklist(h, mode) ==
  IF mode = WASM_COMPILE_TIER2 THEN h.wasmWorklist_tier2
  ELSE h.wasmWorklist_tier1

canStartWasmCompile(h, mode) ==
  /\ wasmWorklist(h, mode) # <<>>
  /\ WasmCompileThreads(h, mode) # 0
  /\ CheckTaskThreadLimit(h, mode, WasmCompileThreads(h, mode), FALSE)

canStartWasmTier1CompileTask(h) == canStartWasmCompile(h, WASM_COMPILE_TIER1)

canStartWasmTier2CompileTask(h) == canStartWasmCompile(h, WASM_COMPILE_TIER2)

canStartWasmTier2GeneratorTask(h) ==
  /\ h.wasmTier2GeneratorWorklist # <<>>
  /\ CheckTaskThreadLimit(h, WASM_GENERATOR_TIER2,
                          maxWasmTier2GeneratorThreads(h), TRUE)

canStartPromiseHelperTask(h) ==
  /\ h.promiseHelperTasks # <<>>
  /\ CheckTaskThreadLimit(h, PROMISE_TASK, maxPromiseHelperThreads(h), TRUE)

canStartIonCompileTask(h) ==
  /\ h.ionWorklist # <<>>
  /\ CheckTaskThreadLimit(h, ION, maxIonCompilationThreads(h), FALSE)

canStartIonFreeTask(h) == h.ionFreeList # <<>>

canStartParseTask(h) ==
  /\ h.parseWorklist # <<>>
  /\ CheckTaskThreadLimit(h, PARSE, maxParseThreads(h), TRUE)

canStartFreeDelazifyTask(h) ==
  /\ h.freeDelazifyTaskVector # <<>>
  /\ CheckTaskThreadLimit(h, DELAZIFY_FREE, maxParseThreads(h), TRUE)

canStartDelazifyTask(h) ==
  /\ h.delazifyWorklist # <<>>
  /\ CheckTaskThreadLimit(h, DELAZIFY, maxParseThreads(h), TRUE)

canStartCompressionTask(h) ==
  /\ h.compressionWorklist # <<>>
  /\ CheckTaskThreadLimit(h, COMPRESS, maxCompressionThreads(h), FALSE)

canStartGCParallelTask(h) ==
  /\ h.gcParallelWorklist # <<>>
  /\ CheckTaskThreadLimit(h, GCPARALLEL, maxGCParallelThreads(h), FALSE)

\* The admission predicate of a kind.
canStart(h, kind) ==
  CASE kind = GCPARALLEL -> canStartGCParallelTask(h)
    [] kind = ION -> canStartIonCompileTask(h)
    [] kind = WASM_COMPILE_TIER1 -> canStartWasmTier1CompileTask(h)
    [] kind = PROMISE_TASK -> canStartPromiseHelperTask(h)
    [] kind = PARSE -> canStartParseTask(h)
    [] kind = DELAZIFY_FREE -> canStartFreeDelazifyTask(h)
    [] kind = DELAZIFY -> canStartDelazifyTask(h)
    [] kind = COMPRESS -> canStartCompressionTask(h)
    [] kind = ION_FREE -> canStartIonFreeTask(h)
    [] kind = WASM_COMPILE_TIER2 -> canStartWasmTier2CompileTask(h)
    [] kind = WASM_GENERATOR_TIER2 -> canStartWasmTier2GeneratorTask(h)

\* A mutation of canStartTasks: the parse kind is left out of the disjunction.
canStartTasksNoParse(h) ==
  \/ canStartGCParallelTask(h)
  \/ canStartIonCompileTask(h)
  \/ canStartWasmTier1CompileTask(h)
  \/ canStartPromiseHelperTask(h)
  \/ canStartFreeDelazifyTask(h)
  \/ canStartDelazifyTask(h)
  \/ canStartCompressionTask(h)
  \/ canStartIonFreeTask(h)
  \/ canStartWasmTier2CompileTask(h)
  \/ canStartWasmTier2GeneratorTask(h)

canStartTasks(h) ==
  \/ canStartGCParallelTask(h)
  \/ canStartIonCompileTask(h)
  \/ canStartWasmTier1CompileTask(h)
  \/ canStartPromiseHelperTask(h)
  \/ canStartParseTask(h)
  \/ canStartFreeDelazifyTask(h)
  \/ canStartDelazifyTask(h)
  \/ canStartCompressionTask(h)
  \/ canStartIonFreeTask(h)
  \/ canStartWasmTier2CompileTask(h)
  \/ canStartWasmTier2GeneratorTask(h)

\* A mutation of dispatch: tasksPending_ is not compared with threadCount.
dispatchUncapped(h) ==
  IF canStartTasks(h)
    THEN [h EXCEPT !.tasksPending_ = @ + 1, !.pendingCallbacks = @ + 1]
    ELSE h

\* dispatch(reason): one dispatchTaskCallback per increment of tasksPending_.
\* pendingCallbacks is a history field: the dispatchTaskCallback calls that
\* JS::RunHelperThreadTask has not answered yet.
dispatch(h) ==
  IF canStartTasks(h) /\ h.tasksPending_ < h.threadCount
    THEN [h EXCEPT !.tasksPending_ = @ + 1, !.pendingCallbacks = @ + 1]
    ELSE h

(***************************************************************************)
(* Selectors.  Each returns [task, h]: the task popped (NoTask for nullptr)  *)
(* and the state after the pop.                                              *)
(***************************************************************************)
Got(t, h) == [task |-> t, h |-> h]

None(h) == [task |-> NoTask, h |-> h]

\* A mutation of maybeGetGCParallelTask: it never yields a task.
maybeGetGCParallelTaskNever(h) == None(h)

maybeGetGCParallelTask(h) ==
  IF ~canStartGCParallelTask(h) THEN None(h)
  ELSE Got(Head(h.gcParallelWorklist),
           [h EXCEPT !.gcParallelWorklist = Tail(@)])

maybeGetWasmCompile(h, mode) ==
  IF ~canStartWasmCompile(h, mode) THEN None(h)
  ELSE IF mode = WASM_COMPILE_TIER2
    THEN Got(Head(h.wasmWorklist_tier2),
             [h EXCEPT !.wasmWorklist_tier2 = Tail(@)])
    ELSE Got(Head(h.wasmWorklist_tier1),
             [h EXCEPT !.wasmWorklist_tier1 = Tail(@)])

maybeGetWasmTier1CompileTask(h) == maybeGetWasmCompile(h, WASM_COMPILE_TIER1)

maybeGetWasmTier2CompileTask(h) == maybeGetWasmCompile(h, WASM_COMPILE_TIER2)

maybeGetWasmTier2GeneratorTask(h) ==
  IF ~canStartWasmTier2GeneratorTask(h) THEN None(h)
  ELSE Got(Last(h.wasmTier2GeneratorWorklist),
           [h EXCEPT !.wasmTier2GeneratorWorklist = Front(@)])

maybeGetPromiseHelperTask(h) ==
  IF ~canStartPromiseHelperTask(h) THEN None(h)
  ELSE Got(Last(h.promiseHelperTasks),
           [h EXCEPT !.promiseHelperTasks = Front(@)])

\* A mutation of IonCompileTaskHasHigherPriority: the two ratios are
\* compared exactly, without rounding down.
IonCompileTaskHasHigherPriorityExact(first, second) ==
  (tasks[first].warm * tasks[second].len) >
    (tasks[second].warm * tasks[first].len)

\* priority(first) > priority(second): warm-up count over script length,
\* in unsigned integer division.
IonCompileTaskHasHigherPriority(first, second) ==
  (tasks[first].warm \div tasks[first].len) >
    (tasks[second].warm \div tasks[second].len)

\* A mutation of isMainThreadRunningJS: every main thread counts as running
\* JS.
isMainThreadRunningJSAlways(t, js) == TRUE

\* isMainThreadRunningJS() of a task: js is the set of runtimes whose main
\* thread is running JS at the moment of the call.
isMainThreadRunningJS(t, js) == tasks[t].rt \in js

RECURSIVE IonScan(_, _, _, _, _)
\* The loop of highestPriorityPendingIonCompile from index i on; index is
\* the best index so far, Len(worklist) + 1 standing for "none yet".
IonScan(worklist, i, index, checkExecutionStatus, js) ==
  IF i > Len(worklist) THEN index
  ELSE IF checkExecutionStatus /\ ~isMainThreadRunningJS(worklist[i], js)
    THEN IonScan(worklist, i + 1, index, checkExecutionStatus, js)
  ELSE IF i < index
    THEN IonScan(worklist, i + 1, i, checkExecutionStatus, js)
  ELSE IF IonCompileTaskHasHigherPriority(worklist[i], worklist[index])
    THEN IonScan(worklist, i + 1, i, checkExecutionStatus, js)
  ELSE IonScan(worklist, i + 1, index, checkExecutionStatus, js)

highestPriorityPendingIonCompile(h, checkExecutionStatus, js) ==
  LET worklist == h.ionWorklist
      index == IonScan(worklist, 1, Len(worklist) + 1,
                       checkExecutionStatus, js)
  IN IF index = Len(worklist) + 1 THEN None(h)
     ELSE Got(worklist[index],
              [h EXCEPT !.ionWorklist = EraseAt(worklist, index)])

maybeGetIonCompileTask(h, js) ==
  IF ~canStartIonCompileTask(h) THEN None(h)
  ELSE highestPriorityPendingIonCompile(h, TRUE, js)

\* A mutation of maybeGetLowPrioIonCompileTask: it never yields a task.
maybeGetLowPrioIonCompileTaskNever(h, js) == None(h)

maybeGetLowPrioIonCompileTask(h, js) ==
  IF ~canStartIonCompileTask(h) THEN None(h)
  ELSE highestPriorityPendingIonCompile(h, FALSE, js)

maybeGetIonFreeTask(h) ==
  IF ~canStartIonFreeTask(h) THEN None(h)
  ELSE Got(Last(h.ionFreeList), [h EXCEPT !.ionFreeList = Front(@)])

\* A mutation of maybeGetParseTask: the oldest task is taken.
maybeGetParseTaskPopFirst(h) ==
  IF ~canStartParseTask(h) THEN None(h)
  ELSE Got(Head(h.parseWorklist), [h EXCEPT !.parseWorklist = Tail(@)])

maybeGetParseTask(h) ==
  IF ~canStartParseTask(h) THEN None(h)
  ELSE Got(Last(h.parseWorklist), [h EXCEPT !.parseWorklist = Front(@)])

\* No admission check: only emptiness of the vector is tested.
maybeGetFreeDelazifyTask(h) ==
  IF h.freeDelazifyTaskVector # <<>>
    THEN Got(Last(h.freeDelazifyTaskVector),
             [h EXCEPT !.freeDelazifyTaskVector = Front(@)])
    ELSE None(h)

\* A mutation of maybeGetDelazifyTask: the task is returned but left on the
\* worklist.
maybeGetDelazifyTaskNoPop(h) ==
  IF h.delazifyWorklist = <<>> THEN None(h)
  ELSE Got(Head(h.delazifyWorklist), h)

\* No admission check: only emptiness of the list is tested.
maybeGetDelazifyTask(h) ==
  IF h.delazifyWorklist = <<>> THEN None(h)
  ELSE Got(Head(h.delazifyWorklist),
           [h EXCEPT !.delazifyWorklist = Tail(@)])

maybeGetCompressionTask(h) ==
  IF ~canStartCompressionTask(h) THEN None(h)
  ELSE Got(Last(h.compressionWorklist),
           [h EXCEPT !.compressionWorklist = Front(@)])

\* A mutation of the selector table: parse is tried before GC-parallel.
selectorsParseFirst ==
  <<"maybeGetParseTask", "maybeGetGCParallelTask", "maybeGetIonCompileTask",
    "maybeGetWasmTier1CompileTask", "maybeGetPromiseHelperTask",
    "maybeGetFreeDelazifyTask", "maybeGetDelazifyTask",
    "maybeGetCompressionTask", "maybeGetLowPrioIonCompileTask",
    "maybeGetIonFreeTask", "maybeGetWasmTier2CompileTask",
    "maybeGetWasmTier2GeneratorTask">>

\* GlobalHelperThreadState::selectors[]: priority is the order of listing.
selectors ==
  <<"maybeGetGCParallelTask", "maybeGetIonCompileTask",
    "maybeGetWasmTier1CompileTask", "maybeGetPromiseHelperTask",
    "maybeGetParseTask", "maybeGetFreeDelazifyTask", "maybeGetDelazifyTask",
    "maybeGetCompressionTask", "maybeGetLowPrioIonCompileTask",
    "maybeGetIonFreeTask", "maybeGetWasmTier2CompileTask",
    "maybeGetWasmTier2GeneratorTask">>

\* (this->*(selector))(locked)
CallSelector(name, h, js) ==
  CASE name = "maybeGetGCParallelTask" -> maybeGetGCParallelTask(h)
    [] name = "maybeGetIonCompileTask" -> maybeGetIonCompileTask(h, js)
    [] name = "maybeGetWasmTier1CompileTask" -> maybeGetWasmTier1CompileTask(h)
    [] name = "maybeGetPromiseHelperTask" -> maybeGetPromiseHelperTask(h)
    [] name = "maybeGetParseTask" -> maybeGetParseTask(h)
    [] name = "maybeGetFreeDelazifyTask" -> maybeGetFreeDelazifyTask(h)
    [] name = "maybeGetDelazifyTask" -> maybeGetDelazifyTask(h)
    [] name = "maybeGetCompressionTask" -> maybeGetCompressionTask(h)
    [] name = "maybeGetLowPrioIonCompileTask" ->
         maybeGetLowPrioIonCompileTask(h, js)
    [] name = "maybeGetIonFreeTask" -> maybeGetIonFreeTask(h)
    [] name = "maybeGetWasmTier2CompileTask" -> maybeGetWasmTier2CompileTask(h)
    [] name = "maybeGetWasmTier2GeneratorTask" ->
         maybeGetWasmTier2GeneratorTask(h)

RECURSIVE FindFrom(_, _, _)
\* The loop of findHighestPriorityTask from selector i on; the result also
\* names the selector that yielded the task (0 if none did).
FindFrom(i, h, js) ==
  IF i > Len(selectors) THEN [task |-> NoTask, sel |-> 0, h |-> h]
  ELSE LET r == CallSelector(selectors[i], h, js)
       IN IF r.task # NoTask
            THEN [task |-> r.task, sel |-> i, h |-> r.h]
            ELSE FindFrom(i + 1, h, js)

findHighestPriorityTask(h, js) == FindFrom(1, h, js)

(***************************************************************************)
(* runTaskLocked, split at the task body.                                    *)
(***************************************************************************)
\* Up to the call of task->runHelperThreadTask(locked).
RunTaskLockedEnter(h, t) ==
  [h EXCEPT !.helperTasks = Append(@, t),
            !.runningTaskCount[tasks[t].kind] = @ + 1,
            !.totalCountRunningTasks = @ + 1]

\* A mutation of the end of runTaskLocked: runningTaskCount is not
\* decremented.
RunTaskLockedLeaveKeepsCount(h, t) ==
  [h EXCEPT !.helperTasks = EraseIfEqual(@, t),
            !.totalCountRunningTasks = @ - 1]

\* A mutation of the end of runTaskLocked: totalCountRunningTasks is not
\* decremented.
RunTaskLockedLeaveKeepsTotal(h, t) ==
  [h EXCEPT !.helperTasks = EraseIfEqual(@, t),
            !.runningTaskCount[tasks[t].kind] = @ - 1]

\* After task->runHelperThreadTask(locked) has returned.
RunTaskLockedLeave(h, t) ==
  [h EXCEPT !.helperTasks = EraseIfEqual(@, t),
            !.runningTaskCount[tasks[t].kind] = @ - 1,
            !.totalCountRunningTasks = @ - 1]

(***************************************************************************)
(* Task objects.  fate and ran are history fields: who owns the object now,  *)
(* and whether it has ever been entered in helperTasks.  readOnly is the     *)
(* protection of the LifoAlloc an IonCompileTask is allocated in.  inRun is  *)
(* the position of the worker thread running the task: inside its call of    *)
(* task->runHelperThreadTask or not.  callbacks counts the invocations of a  *)
(* ParseTask's completion callback.                                          *)
(*   "live"      owned by a container of the coordinator                     *)
(*   "handed"    a finished DelazifyTask owned by its FreeDelazifyTask       *)
(*   "reclaimed" taken back by its producer or its external owner            *)
(*   "destroyed" deleted                                                     *)
(*   "leaked"    owned by nobody and never deleted                           *)
(***************************************************************************)
NewTask(kind, rt, zone, warm, len, work, of) ==
  [kind |-> kind, rt |-> rt, zone |-> zone, warm |-> warm, len |-> len,
   work |-> work, of |-> of, fate |-> "live", ran |-> FALSE, runs |-> 0,
   cancel |-> FALSE, readOnly |-> FALSE, inRun |-> FALSE, callbacks |-> 0]

\* task->alloc().lifoAlloc()->setReadOnly() and setReadWrite() on the task
\* objects T.
setReadOnly(T, t) == [T EXCEPT ![t].readOnly = TRUE]

setReadWrite(T, t) == [T EXCEPT ![t].readOnly = FALSE]

TaskIds == 1..Len(tasks)

KindsSubmitted == {tasks[i].kind : i \in TaskIds} \ {DELAZIFY_FREE}

NumSubmitted == Cardinality({i \in TaskIds : tasks[i].kind # DELAZIFY_FREE})

\* The worklist of a kind.
WorklistOf(h, kind) ==
  CASE kind = GCPARALLEL -> h.gcParallelWorklist
    [] kind = ION -> h.ionWorklist
    [] kind = WASM_COMPILE_TIER1 -> h.wasmWorklist_tier1
    [] kind = WASM_COMPILE_TIER2 -> h.wasmWorklist_tier2
    [] kind = WASM_GENERATOR_TIER2 -> h.wasmTier2GeneratorWorklist
    [] kind = PROMISE_TASK -> h.promiseHelperTasks
    [] kind = PARSE -> h.parseWorklist
    [] kind = DELAZIFY -> h.delazifyWorklist
    [] kind = DELAZIFY_FREE -> h.freeDelazifyTaskVector
    [] kind = COMPRESS -> h.compressionWorklist
    [] kind = ION_FREE -> h.ionFreeList

NoPick == [called |-> FALSE, task |-> NoTask, name |-> "", pre |-> {},
           yield |-> {}, same |-> TRUE, from |-> <<>>, js |-> {}]

NoSelector == [by |-> "none", v |-> 0, st |-> 0]

\* The producer thread.  pc: "idle", a wait inside an operation, or "ret"
\* in the state an operation returns in.  moved and waited are history: the
\* tasks the operation found queued at its call, and whether it has blocked.
Idle ==
  [pc |-> "idle", op |-> "none", sel |-> NoSelector, moved |-> {},
   waited |-> FALSE]

ProducerFree == prod.pc \in {"idle", "ret"}

\* setDispatchTaskCallback(callback, threadCount, stackSize): the embedder
\* passes the number of threads of its pool.
setDispatchTaskCallback(h, threadCount) ==
  [h EXCEPT !.threadCount = threadCount, !.dispatchTaskCallback = TRUE,
            !.poolThreads = threadCount]

\* setCpuCount(count)
setCpuCount(h, count) ==
  [h EXCEPT !.cpuCount = count, !.threadCount = ThreadCountForCPUCount(count)]

\* The configurations explored: <<probed CPU count, thread count given to
\* setDispatchTaskCallback>>.
Configs == {<<2, 2>>, <<3, 3>>}

\* The sets of kinds the producer submits in one behaviour.
KindSets == {S \in SUBSET SubmitKinds : Cardinality(S) <= 2}

\* Units of work (runs needed) of the DelazifyTasks submitted.
WorkUnits == {1, 2}

Init ==
  /\ \E c \in Configs :
       hts = EnsureInitialized(
               setDispatchTaskCallback(Constructed(c[1]), c[2]))
  /\ tasks = <<>>
  /\ prod = Idle
  /\ pick = NoPick

(***************************************************************************)
(* submitTask, one overload per kind.  Each appends to the kind's worklist   *)
(* and calls dispatch.                                                       *)
(***************************************************************************)
submitTask(h, kind, t) ==
  CASE kind = GCPARALLEL ->
         dispatch([h EXCEPT !.gcParallelWorklist = Append(@, t)])
    [] kind = ION -> dispatch([h EXCEPT !.ionWorklist = Append(@, t)])
    [] kind = WASM_COMPILE_TIER1 ->
         dispatch([h EXCEPT !.wasmWorklist_tier1 = Append(@, t)])
    [] kind = WASM_COMPILE_TIER2 ->
         dispatch([h EXCEPT !.wasmWorklist_tier2 = Append(@, t)])
    [] kind = WASM_GENERATOR_TIER2 ->
         dispatch([h EXCEPT !.wasmTier2GeneratorWorklist = Append(@, t)])
    [] kind = PROMISE_TASK ->
         dispatch([h EXCEPT !.promiseHelperTasks = Append(@, t)])
    [] kind = PARSE -> dispatch([h EXCEPT !.parseWorklist = Append(@, t)])
    [] kind = DELAZIFY ->
         dispatch([h EXCEPT !.delazifyWorklist = Append(@, t)])
    [] kind = DELAZIFY_FREE ->
         dispatch([h EXCEPT !.freeDelazifyTaskVector = Append(@, t)])
    [] kind = COMPRESS ->
         dispatch([h EXCEPT !.compressionWorklist = Append(@, t)])
    [] kind = ION_FREE -> dispatch([h EXCEPT !.ionFreeList = Append(@, t)])

\* What a successful submitTask does to the task objects T: the overload for
\* IonCompileTask freezes the task's LifoAlloc after the append.
submitTaskArena(T, kind, t) == IF kind = ION THEN setReadOnly(T, t) ELSE T

\* The attributes the producer gives the tasks of a kind in the general
\* specification.
Shapes(kind) ==
  CASE kind = ION ->
         {NewTask(ION, ZoneRuntime(z), z, 2, 1, 0, NoTask) : z \in {1, 3}}
    [] kind = PARSE -> {NewTask(PARSE, 1, 0, 0, 0, 0, NoTask)}
    [] kind = COMPRESS ->
         {NewTask(COMPRESS, rt, 0, 0, 0, 0, NoTask) : rt \in Runtimes}
    [] kind = DELAZIFY ->
         {NewTask(DELAZIFY, 1, 0, 0, 0, w, NoTask) : w \in WorkUnits}
    [] OTHER -> {NewTask(kind, 0, 0, 0, 0, 0, NoTask)}

\* The producer creates the task obj and submits it (StartOffThread<Kind>);
\* a compression task goes to the pending list
\* (EnqueueOffThreadCompression).
SubmitTask(obj) ==
  LET t == Len(tasks) + 1
  IN /\ ProducerFree
     /\ hts.isInitialized_
     /\ tasks' = submitTaskArena(Append(tasks, obj), obj.kind, t)
     /\ hts' = IF obj.kind = COMPRESS
                 THEN [hts EXCEPT !.compressionPendingList = Append(@, t)]
                 ELSE submitTask(hts, obj.kind, t)
     /\ prod' = Idle
     /\ pick' = NoPick

Submit ==
  /\ NumSubmitted < MaxTasks
  /\ \E kind \in SubmitKinds :
       /\ KindsSubmitted \cup {kind} \in KindSets
       /\ \E obj \in Shapes(kind) : SubmitTask(obj)

(***************************************************************************)
(* Task bodies: what runHelperThreadTask does once the lock is held again.   *)
(* Each returns [h, tasks].                                                  *)
(***************************************************************************)
Post(h, T) == [h |-> h, tasks |-> T]

\* js::FinishOffThreadIonCompile
FinishOffThreadIonCompile(h, t) == [h EXCEPT !.ionFinishedList = Append(@, t)]

\* A mutation of ParseTask::runHelperThreadTask: the task is not put on the
\* finished list.
ParseTask_runHelperThreadTaskNoInsert(h, T, t) ==
  Post(h, [T EXCEPT ![t].callbacks = @ + 1])

\* ParseTask::runHelperThreadTask once runTask has returned with the lock
\* held again: callback(this, callbackData), then the finished list.
ParseTask_runHelperThreadTask(h, T, t) ==
  Post([h EXCEPT !.parseFinishedList = Append(@, t)],
       [T EXCEPT ![t].callbacks = @ + 1])

\* A mutation of DelazifyTask::runHelperThreadTask: an unfinished task is
\* not put back on the worklist.
DelazifyTask_runHelperThreadTaskNoRequeue(h, T, t, allocOk) ==
  LET T1 == [T EXCEPT ![t].work = @ - 1]
  IN IF T1[t].work > 0
       THEN Post(h, [T1 EXCEPT ![t].fate = "leaked"])
     ELSE IF allocOk
       THEN Post(submitTask(h, DELAZIFY_FREE, Len(T) + 1),
                 Append([T1 EXCEPT ![t].fate = "handed"],
                        NewTask(DELAZIFY_FREE, T[t].rt, 0, 0, 0, 0, t)))
     ELSE Post(h, [T1 EXCEPT ![t].fate = "leaked"])

\* DelazifyTask::runHelperThreadTask: one run of delazify() has consumed one
\* unit of work; if the task is not done it submits itself again, else it
\* is handed to a new FreeDelazifyTask (allocOk: js_new succeeded).
DelazifyTask_runHelperThreadTask(h, T, t, allocOk) ==
  LET T1 == [T EXCEPT ![t].work = @ - 1]
  IN IF T1[t].work > 0
       THEN Post(submitTask(h, DELAZIFY, t), T1)
     ELSE IF allocOk
       THEN Post(submitTask(h, DELAZIFY_FREE, Len(T) + 1),
                 Append([T1 EXCEPT ![t].fate = "handed"],
                        NewTask(DELAZIFY_FREE, T[t].rt, 0, 0, 0, 0, t)))
     ELSE Post(h, [T1 EXCEPT ![t].fate = "leaked"])

\* FreeDelazifyTask::runHelperThreadTask: deletes the DelazifyTask, then
\* itself.
FreeDelazifyTask_runHelperThreadTask(h, T, t) ==
  Post(h, [T EXCEPT ![T[t].of].fate = "destroyed", ![t].fate = "destroyed"])

\* PromiseHelperTask::runHelperThreadTask: dispatchResolveAndDestroy hands
\* the task to its runtime.
PromiseHelperTask_runHelperThreadTask(h, T, t) ==
  Post(h, [T EXCEPT ![t].fate = "reclaimed"])

\* jit::IonCompileTask::runHelperThreadTask
IonCompileTask_runHelperThreadTask(h, T, t) ==
  Post(FinishOffThreadIonCompile(h, t), T)

\* SourceCompressionTask::runHelperThreadTask
SourceCompressionTask_runHelperThreadTask(h, T, t) ==
  Post([h EXCEPT !.compressionFinishedList = Append(@, t)], T)

\* wasm::Tier2GeneratorTask::runHelperThreadTask
Tier2GeneratorTask_runHelperThreadTask(h, T, t) ==
  Post([h EXCEPT !.wasmTier2GeneratorsFinished_ = @ + 1],
       [T EXCEPT ![t].fate = "destroyed"])

\* GCParallelTask, wasm::CompileTask, jit::IonFreeTask: the task goes back
\* to its owner outside the coordinator.
OtherTask_runHelperThreadTask(h, T, t) ==
  Post(h, [T EXCEPT ![t].fate = "reclaimed"])

runHelperThreadTask(h, T, t, allocOk) ==
  CASE T[t].kind = PARSE -> ParseTask_runHelperThreadTask(h, T, t)
    [] T[t].kind = DELAZIFY ->
         DelazifyTask_runHelperThreadTask(h, T, t, allocOk)
    [] T[t].kind = DELAZIFY_FREE ->
         FreeDelazifyTask_runHelperThreadTask(h, T, t)
    [] T[t].kind = PROMISE_TASK ->
         PromiseHelperTask_runHelperThreadTask(h, T, t)
    [] T[t].kind = ION -> IonCompileTask_runHelperThreadTask(h, T, t)
    [] T[t].kind = COMPRESS ->
         SourceCompressionTask_runHelperThreadTask(h, T, t)
    [] T[t].kind = WASM_GENERATOR_TIER2 ->
         Tier2GeneratorTask_runHelperThreadTask(h, T, t)
    [] OTHER -> OtherTask_runHelperThreadTask(h, T, t)

(***************************************************************************)
(* Worker steps.                                                             *)
(***************************************************************************)
\* What each selector yields on, stated from the admission policy alone.
SelectorHasWork(name, h, js) ==
  CASE name = "maybeGetGCParallelTask" -> canStart(h, GCPARALLEL)
    [] name = "maybeGetIonCompileTask" ->
         /\ canStart(h, ION)
         /\ \E i \in 1..Len(h.ionWorklist) : tasks[h.ionWorklist[i]].rt \in js
    [] name = "maybeGetWasmTier1CompileTask" -> canStart(h, WASM_COMPILE_TIER1)
    [] name = "maybeGetPromiseHelperTask" -> canStart(h, PROMISE_TASK)
    [] name = "maybeGetParseTask" -> canStart(h, PARSE)
    [] name = "maybeGetFreeDelazifyTask" -> h.freeDelazifyTaskVector # <<>>
    [] name = "maybeGetDelazifyTask" -> h.delazifyWorklist # <<>>
    [] name = "maybeGetCompressionTask" -> canStart(h, COMPRESS)
    [] name = "maybeGetLowPrioIonCompileTask" -> canStart(h, ION)
    [] name = "maybeGetIonFreeTask" -> canStart(h, ION_FREE)
    [] name = "maybeGetWasmTier2CompileTask" -> canStart(h, WASM_COMPILE_TIER2)
    [] name = "maybeGetWasmTier2GeneratorTask" ->
         canStart(h, WASM_GENERATOR_TIER2)

\* The record kept of a findHighestPriorityTask call on state h; from is the
\* worklist of the returned task's kind as it was at the call, js the
\* runtimes whose main thread was running JS.
PickOf(h, js, r) ==
  [called |-> TRUE,
   task |-> r.task,
   name |-> IF r.sel = 0 THEN "" ELSE selectors[r.sel],
   pre |-> {k \in ThreadTypes : canStart(h, k)},
   yield |-> {n \in Range(selectors) : SelectorHasWork(n, h, js)},
   same |-> (r.h = h),
   from |-> IF r.task = NoTask THEN <<>>
            ELSE WorklistOf(h, tasks[r.task].kind),
   js |-> js]

\* A producer that has just returned from an operation is idle again as
\* soon as anything else happens.
ProdAfterStep == IF prod.pc = "ret" THEN Idle ELSE prod

\* A mutation of isTerminating: the flag is not read.
isTerminatingNever(h) == FALSE

\* GlobalHelperThreadState::isTerminating, as JS::RunHelperThreadTask reads it.
isTerminating(h) == h.terminating_

\* JS::RunHelperThreadTask and runOneTask up to the task body: a thread of
\* the pool that is not inside a task answers one dispatch callback.
TaskStart ==
  /\ hts.pendingCallbacks > 0
  /\ ~isTerminating(hts)
  /\ Len(hts.helperTasks) < hts.poolThreads
  /\ \E js \in (IF hts.ionWorklist = <<>> THEN {{}} ELSE SUBSET Runtimes) :
       LET h1 == [hts EXCEPT !.tasksPending_ = @ - 1,
                             !.pendingCallbacks = @ - 1]
           r == findHighestPriorityTask(h1, js)
       IN /\ pick' = PickOf(h1, js, r)
          /\ IF r.task = NoTask
               THEN /\ hts' = r.h
                    /\ tasks' = tasks
               ELSE /\ hts' = RunTaskLockedEnter(r.h, r.task)
                    /\ tasks' = [tasks EXCEPT ![r.task].ran = TRUE,
                                               ![r.task].runs = @ + 1,
                                               ![r.task].inRun = TRUE]
  /\ prod' = ProdAfterStep

\* A mutation of the return path: runOneTask does not call
\* dispatch(FinishedTask).
TaskReturnNoDispatch ==
  /\ \E i \in 1..Len(hts.helperTasks), allocOk \in BOOLEAN :
       LET t == hts.helperTasks[i]
           p == runHelperThreadTask(hts, tasks, t, allocOk)
       IN /\ (allocOk \/ (tasks[t].kind = DELAZIFY /\ tasks[t].work = 1))
          /\ hts' = RunTaskLockedLeave(p.h, t)
          /\ tasks' = [p.tasks EXCEPT ![t].inRun = FALSE]
  /\ prod' = ProdAfterStep
  /\ pick' = NoPick

\* The task body returns: the rest of runHelperThreadTask, of runTaskLocked
\* and of runOneTask (dispatch(FinishedTask), notifyAll).
TaskReturn ==
  /\ \E i \in 1..Len(hts.helperTasks), allocOk \in BOOLEAN :
       LET t == hts.helperTasks[i]
           p == runHelperThreadTask(hts, tasks, t, allocOk)
       IN /\ (allocOk \/ (tasks[t].kind = DELAZIFY /\ tasks[t].work = 1))
          /\ hts' = dispatch(RunTaskLockedLeave(p.h, t))
          /\ tasks' = [p.tasks EXCEPT ![t].inRun = FALSE]
  /\ prod' = ProdAfterStep
  /\ pick' = NoPick

(***************************************************************************)
(* Producer operations that do not block.                                    *)
(***************************************************************************)
RECURSIVE StartHandlingFromKeepsPending(_, _, _, _, _)
\* A mutation of startHandlingCompressionTasks: a submitted task is left in
\* the pending list.
StartHandlingFromKeepsPending(h, i, api, sched, oom) ==
  IF i > Len(h.compressionPendingList) THEN h
  ELSE LET t == h.compressionPendingList[i]
       IN IF api \/ (tasks[t].rt = sched.rt /\ t \in sched.ss)
            THEN StartHandlingFromKeepsPending(
                   (IF t \in oom THEN h ELSE submitTask(h, COMPRESS, t)),
                   i + 1, api, sched, oom)
            ELSE StartHandlingFromKeepsPending(h, i + 1, api, sched, oom)

RECURSIVE StartHandlingFrom(_, _, _, _, _)
\* The loop of startHandlingCompressionTasks from index i on: a pending task
\* that qualifies is submitted and removed from the pending list.  api:
\* ScheduleCompressionTask::API; rt: maybeRuntime; ss: the tasks whose
\* shouldStart() is true; oom: the tasks for which the append of submitTask
\* fails, which are removed from the pending list all the same.
StartHandlingFrom(h, i, api, sched, oom) ==
  IF i > Len(h.compressionPendingList) THEN h
  ELSE LET t == h.compressionPendingList[i]
       IN IF api \/ (tasks[t].rt = sched.rt /\ t \in sched.ss)
            THEN StartHandlingFrom(
                   [(IF t \in oom THEN h ELSE submitTask(h, COMPRESS, t))
                      EXCEPT !.compressionPendingList = Remove(@, i)],
                   i, api, sched, oom)
            ELSE StartHandlingFrom(h, i + 1, api, sched, oom)

startHandlingCompressionTasks(h, api, sched, oom) ==
  StartHandlingFrom(h, 1, api, sched, oom)

\* js::StartHandlingCompressionsOnGC(runtime).  A task whose submitTask
\* failed was moved into the call's parameter and is deleted with it.
StartHandlingCompressionsOnGC ==
  /\ ProducerFree
  /\ hts.compressionPendingList # <<>>
  /\ \E rt \in Runtimes, ss \in SUBSET Range(hts.compressionPendingList) :
       \E oom \in SUBSET ss :
         LET h1 == startHandlingCompressionTasks(hts, FALSE,
                                                 [rt |-> rt, ss |-> ss], oom)
         IN /\ hts' = h1
            /\ tasks' = [t \in TaskIds |->
                           IF /\ t \in Range(hts.compressionPendingList)
                              /\ t \notin Range(h1.compressionPendingList)
                              /\ t \in oom
                             THEN [tasks[t] EXCEPT !.fate = "destroyed"]
                             ELSE tasks[t]]
  /\ prod' = Idle
  /\ pick' = NoPick

\* GlobalHelperThreadState::removeFinishedParseTask(cx, token): the
\* producer takes a finished parse task of its runtime.
removeFinishedParseTask(h, t) ==
  [h EXCEPT !.parseFinishedList = EraseIfEqual(@, t)]

FinishParseTask ==
  /\ ProducerFree
  /\ \E i \in 1..Len(hts.parseFinishedList) :
       LET t == hts.parseFinishedList[i]
       IN /\ hts' = removeFinishedParseTask(hts, t)
          /\ tasks' = [tasks EXCEPT ![t].fate = "reclaimed"]
  /\ prod' = Idle
  /\ pick' = NoPick

Next ==
  \/ Submit
  \/ TaskStart
  \/ TaskReturn
  \/ StartHandlingCompressionsOnGC
  \/ FinishParseTask

Spec == Init /\ [][Next]_vars

(***************************************************************************)
(* submitTask when the append to the worklist fails.                         *)
(***************************************************************************)
\* The overloads that take the task as a UniquePtr by value: parse, tier-2
\* generator, JIT-free, free-delazify, compression.  The others take a raw
\* pointer.
UniquePtrKinds ==
  {PARSE, WASM_GENERATOR_TIER2, ION_FREE, DELAZIFY_FREE, COMPRESS}

\* insertBack on a linked list cannot fail.
InfallibleKinds == {GCPARALLEL, DELAZIFY}

\* A mutation of submitTaskOOM: the task is put on the worklist although
\* false is returned.
submitTaskOOMEnqueues(h, T, kind, t) ==
  Post([submitTask(h, kind, t) EXCEPT !.tasksPending_ = h.tasksPending_], T)

\* The failing path of submitTask: nothing is appended, dispatch is not
\* called and false is returned.  A task passed as a UniquePtr was moved
\* into the parameter and is deleted when the call returns; a task passed
\* as a raw pointer stays with the caller.
submitTaskOOM(h, T, kind, t) ==
  Post(h, [T EXCEPT ![t].fate = IF kind \in UniquePtrKinds
                                  THEN "destroyed" ELSE "reclaimed"])

SubmitFailed(t) ==
  [pc |-> "ret", op |-> "submitTask",
   sel |-> [by |-> "failed", v |-> t, st |-> 0],
   moved |-> {}, waited |-> FALSE]

\* StartOffThread<Kind>(task) whose submitTask fails.
SubmitTaskOOM(obj) ==
  LET t == Len(tasks) + 1
      r == submitTaskOOM(hts, Append(tasks, obj), obj.kind, t)
  IN /\ ProducerFree
     /\ hts.isInitialized_
     /\ hts' = r.h
     /\ tasks' = r.tasks
     /\ prod' = SubmitFailed(t)
     /\ pick' = NoPick

SubmitOOM ==
  /\ NumSubmitted < MaxTasks
  /\ \E kind \in SubmitKinds \ (InfallibleKinds \cup {COMPRESS}) :
       /\ KindsSubmitted \cup {kind} \in KindSets
       /\ \E obj \in Shapes(kind) : SubmitTaskOOM(obj)

NextOOM ==
  \/ Next
  \/ SubmitOOM

SpecOOM == Init /\ [][NextOOM]_vars

(***************************************************************************)
(* CancelOffThreadIonCompile(selector).                                      *)
(***************************************************************************)
\* CompilationSelector: a script (the script of task v), a zone, a runtime,
\* or the zones of a runtime that are in a given GC state.
IonSelectors ==
  {[by |-> "script", v |-> t, st |-> 0] : t \in 1..MaxTasks}
    \cup {[by |-> "zone", v |-> z, st |-> 0] : z \in Zones}
    \cup {[by |-> "runtime", v |-> rt, st |-> 0] : rt \in Runtimes}
    \cup {[by |-> "zonesInState", v |-> rt, st |-> g] :
            rt \in Runtimes, g \in {0, 1}}

\* Each IonCompileTask compiles its own script: script identity is task
\* identity.
IonCompileTaskMatchesObj(selector, t, obj) ==
  CASE selector.by = "script" -> selector.v = t
    [] selector.by = "zone" -> selector.v = obj.zone
    [] selector.by = "runtime" -> selector.v = obj.rt
    [] selector.by = "zonesInState" ->
         /\ selector.v = obj.rt
         /\ selector.st = ZoneGCState(obj.zone)
    [] OTHER -> FALSE

IonCompileTaskMatches(selector, t) ==
  IonCompileTaskMatchesObj(selector, t, tasks[t])

RECURSIVE CancelPendingIonSkipping(_, _, _)
\* A mutation of the worklist scan: the index advances after a removal, so
\* the element moved into the vacated slot is not examined.
CancelPendingIonSkipping(h, i, selector) ==
  IF i > Len(h.ionWorklist) THEN h
  ELSE LET t == h.ionWorklist[i]
       IN IF IonCompileTaskMatches(selector, t)
            THEN CancelPendingIonSkipping(
                   [FinishOffThreadIonCompile(h, t) EXCEPT
                      !.ionWorklist = Remove(@, i)],
                   i + 1, selector)
            ELSE CancelPendingIonSkipping(h, i + 1, selector)

RECURSIVE CancelPendingIonPopsBack(_, _, _)
\* A mutation of the worklist scan: on a match the vector shrinks by one
\* but the last element is not moved into the vacated slot.
CancelPendingIonPopsBack(h, i, selector) ==
  IF i > Len(h.ionWorklist) THEN h
  ELSE LET t == h.ionWorklist[i]
       IN IF IonCompileTaskMatches(selector, t)
            THEN CancelPendingIonPopsBack(
                   [FinishOffThreadIonCompile(h, t) EXCEPT
                      !.ionWorklist = Front(@)],
                   i, selector)
            ELSE CancelPendingIonPopsBack(h, i + 1, selector)

RECURSIVE CancelPendingIon(_, _, _)
\* "Cancel any pending entries for which processing hasn't started": the
\* worklist scan from index i on.
CancelPendingIon(h, i, selector) ==
  IF i > Len(h.ionWorklist) THEN h
  ELSE LET t == h.ionWorklist[i]
       IN IF IonCompileTaskMatches(selector, t)
            THEN CancelPendingIon(
                   [FinishOffThreadIonCompile(h, t) EXCEPT
                      !.ionWorklist = Remove(@, i)],
                   i, selector)
            ELSE CancelPendingIon(h, i + 1, selector)

\* The running tasks the registry scan cancels.
RunningIonMatches(h, selector) ==
  {t \in Range(h.helperTasks) :
     tasks[t].kind = ION /\ IonCompileTaskMatches(selector, t)}

RECURSIVE CancelFinishedIon(_, _, _)
\* "Cancel code generation for any completed entries": the finished-list
\* scan from index i on.
CancelFinishedIon(h, i, selector) ==
  IF i > Len(h.ionFinishedList) THEN h
  ELSE IF IonCompileTaskMatches(selector, h.ionFinishedList[i])
    THEN CancelFinishedIon(
           [h EXCEPT !.ionFinishedList = Remove(@, i)], i, selector)
    ELSE CancelFinishedIon(h, i + 1, selector)

\* One pass of the do-while loop on state h: either the producer waits, or
\* the loop ends, the finished list is cleaned and the call returns.  thawed
\* are the tasks the worklist scan has just moved to the finished list, whose
\* LifoAlloc it made mutable first.
IonCancelLoop(h, selector, moved, thawed, waited) ==
  LET running == RunningIonMatches(h, selector)
      flagged == [t \in TaskIds |->
                    IF t \in running THEN [tasks[t] EXCEPT !.cancel = TRUE]
                    ELSE IF t \in thawed
                      THEN [tasks[t] EXCEPT !.readOnly = FALSE]
                    ELSE tasks[t]]
      h2 == CancelFinishedIon(h, 1, selector)
      freed == Range(h.ionFinishedList) \ Range(h2.ionFinishedList)
  IN IF running # {}
       THEN /\ hts' = h
            /\ tasks' = flagged
            /\ prod' = [pc |-> "ionWait", op |-> "CancelOffThreadIonCompile",
                        sel |-> selector, moved |-> moved, waited |-> TRUE]
       ELSE /\ hts' = h2
            /\ tasks' = [t \in TaskIds |->
                           IF t \in freed
                             THEN [flagged[t] EXCEPT !.fate = "destroyed"]
                             ELSE flagged[t]]
            /\ prod' = [pc |-> "ret", op |-> "CancelOffThreadIonCompile",
                        sel |-> selector, moved |-> moved,
                        waited |-> waited]

\* The call, up to its first wait or its return.
CancelOffThreadIonCompile ==
  /\ ProducerFree
  /\ \E selector \in IonSelectors :
       LET matched == {t \in Range(hts.ionWorklist) :
                         IonCompileTaskMatches(selector, t)}
       IN IF ~hts.isInitialized_
            THEN /\ UNCHANGED <<hts, tasks>>
                 /\ prod' = [pc |-> "ret", op |-> "CancelOffThreadIonCompile",
                             sel |-> selector, moved |-> {},
                             waited |-> FALSE]
            ELSE IonCancelLoop(CancelPendingIon(hts, 1, selector), selector,
                               matched, matched, FALSE)
  /\ pick' = NoPick

\* The producer wakes up in wait(lock) and goes round the loop again.
CancelOffThreadIonCompileWake ==
  /\ prod.pc = "ionWait"
  /\ IonCancelLoop(hts, prod.sel, prod.moved, {}, TRUE)
  /\ pick' = NoPick

\* StartOffThreadIonCompile with the zones of both runtimes.
SubmitIon ==
  /\ NumSubmitted < MaxTasks
  /\ \E z \in Zones :
       SubmitTask(NewTask(ION, ZoneRuntime(z), z, 2, 1, 0, NoTask))

\* Another thread submits an Ion task that does not match the selector
\* while the canceller waits.
SubmitIonConcurrent ==
  /\ prod.pc = "ionWait"
  /\ NumSubmitted < MaxTasks
  /\ \E z \in Zones :
       LET t == Len(tasks) + 1
           obj == NewTask(ION, ZoneRuntime(z), z, 2, 1, 0, NoTask)
       IN /\ ~IonCompileTaskMatchesObj(prod.sel, t, obj)
          /\ tasks' = submitTaskArena(Append(tasks, obj), ION, t)
          /\ hts' = submitTask(hts, ION, t)
  /\ UNCHANGED prod
  /\ pick' = NoPick

NextIon ==
  \/ SubmitIon
  \/ SubmitIonConcurrent
  \/ TaskStart
  \/ TaskReturn
  \/ CancelOffThreadIonCompile
  \/ CancelOffThreadIonCompileWake

SpecIon == Init /\ [][NextIon]_vars

(***************************************************************************)
(* Parse and JIT-compile tasks beside the cancel of Ion compilations, with   *)
(* a pool that answers every dispatch callback and task bodies that          *)
(* terminate.                                                                *)
(***************************************************************************)
\* A master kind (parse) and a kind a cancel can remove (JIT compile).
LiveKinds == {PARSE, ION}

SubmitLive ==
  /\ NumSubmitted < MaxTasks
  /\ \E kind \in LiveKinds : \E obj \in Shapes(kind) : SubmitTask(obj)

NextLive ==
  \/ SubmitLive
  \/ TaskStart
  \/ TaskReturn
  \/ CancelOffThreadIonCompile
  \/ CancelOffThreadIonCompileWake

\* Two CPUs and a pool of two threads: the least the design allows, where a
\* running task leaves a single idle thread.
InitLive ==
  /\ hts = EnsureInitialized(setDispatchTaskCallback(Constructed(2), 2))
  /\ tasks = <<>>
  /\ prod = Idle
  /\ pick = NoPick

SpecLive == InitLive /\ [][NextLive]_vars

\* Each callback is eventually followed by a runOneTask call, and each task
\* body returns.
FairSpecLive ==
  /\ SpecLive
  /\ WF_vars(TaskStart \/ TaskReturn)

(***************************************************************************)
(* GlobalHelperThreadState::trace beside Ion compilation and its cancel.     *)
(***************************************************************************)
\* A mutation of the visit of one queued task: the LifoAlloc is left
\* mutable.
TraceIonTaskNoRestore(T, t) == setReadWrite(T, t)

\* The visit of one task of the Ion worklist: read-write, task->trace(trc),
\* read-only.
TraceIonTask(T, t) == setReadOnly(setReadWrite(T, t), t)

RECURSIVE TraceIonWorklist(_, _, _)
\* for (auto task : ionWorklist(lock)) from index i on.
TraceIonWorklist(T, worklist, i) ==
  IF i > Len(worklist) THEN T
  ELSE TraceIonWorklist(TraceIonTask(T, worklist[i]), worklist, i + 1)

\* GlobalHelperThreadState::trace(trc), called by the collector on the main
\* thread: one section under the lock.  The tasks of the finished list and
\* of the registry are traced without a change of protection.
Trace ==
  /\ ProducerFree
  /\ hts.isInitialized_
  /\ tasks' = TraceIonWorklist(tasks, hts.ionWorklist, 1)
  /\ prod' = [pc |-> "ret", op |-> "trace", sel |-> NoSelector,
              moved |-> Range(hts.ionWorklist), waited |-> FALSE]
  /\ UNCHANGED hts
  /\ pick' = NoPick

NextIonTrace ==
  \/ NextIon
  \/ Trace

SpecIonTrace == Init /\ [][NextIonTrace]_vars

(***************************************************************************)
(* CancelOffThreadDelazify(rt) and WaitForAllDelazifyTasks(rt).  Runtime 0   *)
(* stands for "no runtime" (maybeRuntime == nullptr).                        *)
(***************************************************************************)
NoRuntime == 0

runtimeMatchesOrNoRuntime(obj, rt) == obj.rt = rt \/ obj.rt = NoRuntime

RuntimeSelector(rt) == [by |-> "runtime", v |-> rt, st |-> 0]

\* The queued DelazifyTasks CancelPendingDelazifyTask deletes.
PendingDelazifyMatches(h, rt) ==
  {t \in Range(h.delazifyWorklist) : runtimeMatchesOrNoRuntime(tasks[t], rt)}

CancelPendingDelazifyTask(h, rt) ==
  [h EXCEPT !.delazifyWorklist =
     SelectSeq(@, LAMBDA t : ~runtimeMatchesOrNoRuntime(tasks[t], rt))]

\* The inProgress test of WaitUntilCancelledDelazifyTasks.
DelazifyInProgress(h, rt) ==
  \E t \in Range(h.helperTasks) :
    tasks[t].kind = DELAZIFY /\ runtimeMatchesOrNoRuntime(tasks[t], rt)

\* The inProgress test of WaitUntilEmptyFreeDelazifyTaskVector.
FreeDelazifyInProgress(h) ==
  \/ h.freeDelazifyTaskVector # <<>>
  \/ \E t \in Range(h.helperTasks) : tasks[t].kind = DELAZIFY_FREE

\* A mutation of the loop body: queued matches are removed at the call
\* only, not again after a wake-up.
WaitUntilCancelledDelazifyTasksSinglePass(h, rt) ==
  LET h1 == IF prod.pc = "dzWait1" THEN h
            ELSE CancelPendingDelazifyTask(h, rt)
  IN [h |-> h1, wait |-> DelazifyInProgress(h1, rt)]

\* One pass of the loop of WaitUntilCancelledDelazifyTasks: the state it
\* leaves and whether it waits.
\* It returns at once while the state is not initialized.
WaitUntilCancelledDelazifyTasks(h, rt) ==
  IF ~h.isInitialized_ THEN [h |-> h, wait |-> FALSE]
  ELSE LET h1 == CancelPendingDelazifyTask(h, rt)
       IN [h |-> h1, wait |-> DelazifyInProgress(h1, rt)]

\* A mutation of WaitUntilEmptyFreeDelazifyTaskVector: the test of
\* isInitialized is inverted.
WaitUntilEmptyFreeDelazifyTaskVectorInverted(h) ==
  [h |-> h, wait |-> ~h.isInitialized_ \/ FreeDelazifyInProgress(h)]

\* One pass of the loop of WaitUntilEmptyFreeDelazifyTaskVector, which
\* returns at once while the state is not initialized.
WaitUntilEmptyFreeDelazifyTaskVector(h) ==
  [h |-> h, wait |-> h.isInitialized_ /\ FreeDelazifyInProgress(h)]

DelazifyProd(pc, rt, moved, waited) ==
  [pc |-> pc, op |-> "CancelOffThreadDelazify", sel |-> RuntimeSelector(rt),
   moved |-> moved, waited |-> waited]

\* The second half of CancelOffThreadDelazify, from state h.
DelazifyCancelFree(h, rt, moved, waited) ==
  LET r == WaitUntilEmptyFreeDelazifyTaskVector(h)
  IN /\ hts' = r.h
     /\ prod' = IF r.wait THEN DelazifyProd("dzWait2", rt, moved, TRUE)
                ELSE DelazifyProd("ret", rt, moved, waited)

\* CancelOffThreadDelazify from the top of the first loop, from state h.
DelazifyCancelLoop(h, rt, moved, waited) ==
  LET r == WaitUntilCancelledDelazifyTasks(h, rt)
      deleted == Range(h.delazifyWorklist) \ Range(r.h.delazifyWorklist)
  IN /\ tasks' = [t \in TaskIds |->
                    IF t \in deleted
                      THEN [tasks[t] EXCEPT !.fate = "destroyed"]
                      ELSE tasks[t]]
     /\ IF r.wait
          THEN /\ hts' = r.h
               /\ prod' = DelazifyProd("dzWait1", rt, moved \cup deleted, TRUE)
          ELSE DelazifyCancelFree(r.h, rt, moved \cup deleted, waited)

\* The call, up to its first wait or its return.
CancelOffThreadDelazify ==
  /\ ProducerFree
  /\ \E rt \in Runtimes : DelazifyCancelLoop(hts, rt, {}, FALSE)
  /\ pick' = NoPick

\* The canceller wakes up in one of its two loops.
CancelOffThreadDelazifyWake ==
  /\ prod.pc \in {"dzWait1", "dzWait2"}
  /\ IF prod.pc = "dzWait1"
       THEN DelazifyCancelLoop(hts, prod.sel.v, prod.moved, TRUE)
       ELSE /\ DelazifyCancelFree(hts, prod.sel.v, prod.moved, TRUE)
            /\ tasks' = tasks
  /\ pick' = NoPick

\* A mutation of HasAnyDelazifyTask: only the worklist is examined.
HasAnyDelazifyTaskQueuedOnly(h, rt) ==
  \E t \in Range(h.delazifyWorklist) : runtimeMatchesOrNoRuntime(tasks[t], rt)

HasAnyDelazifyTask(h, rt) ==
  \/ \E t \in Range(h.delazifyWorklist) :
       runtimeMatchesOrNoRuntime(tasks[t], rt)
  \/ \E t \in Range(h.helperTasks) :
       tasks[t].kind = DELAZIFY /\ runtimeMatchesOrNoRuntime(tasks[t], rt)

\* One pass of the loop of WaitForAllDelazifyTasks.
WaitForAllLoop(rt, waited) ==
  /\ prod' = [pc |-> IF HasAnyDelazifyTask(hts, rt) THEN "waitAll" ELSE "ret",
              op |-> "WaitForAllDelazifyTasks", sel |-> RuntimeSelector(rt),
              moved |-> {},
              waited |-> waited \/ HasAnyDelazifyTask(hts, rt)]
  /\ UNCHANGED <<hts, tasks>>
  /\ pick' = NoPick

\* js::WaitForAllDelazifyTasks(rt), which returns at once while the state
\* is not initialized.
WaitForAllDelazifyTasks ==
  /\ ProducerFree
  /\ \E rt \in Runtimes :
       IF ~hts.isInitialized_
         THEN /\ prod' = [pc |-> "ret", op |-> "WaitForAllDelazifyTasks",
                          sel |-> RuntimeSelector(rt), moved |-> {},
                          waited |-> FALSE]
              /\ UNCHANGED <<hts, tasks>>
              /\ pick' = NoPick
         ELSE WaitForAllLoop(rt, FALSE)

WaitForAllDelazifyTasksWake ==
  /\ prod.pc = "waitAll"
  /\ WaitForAllLoop(prod.sel.v, TRUE)

\* StartOffThreadDelazification from a runtime's thread or without a context.
SubmitDelazify ==
  /\ NumSubmitted < MaxTasks
  /\ \E rt \in Runtimes \cup {NoRuntime}, w \in WorkUnits :
       SubmitTask(NewTask(DELAZIFY, rt, 0, 0, 0, w, NoTask))

\* Another runtime's thread submits a DelazifyTask of its own while the
\* producer is blocked.
SubmitDelazifyConcurrent ==
  /\ prod.pc \in {"dzWait1", "dzWait2", "waitAll"}
  /\ NumSubmitted < MaxTasks
  /\ \E rt \in Runtimes \ {prod.sel.v}, w \in WorkUnits :
       /\ tasks' = Append(tasks, NewTask(DELAZIFY, rt, 0, 0, 0, w, NoTask))
       /\ hts' = submitTask(hts, DELAZIFY, Len(tasks) + 1)
  /\ UNCHANGED prod
  /\ pick' = NoPick

NextDelazify ==
  \/ SubmitDelazify
  \/ SubmitDelazifyConcurrent
  \/ TaskStart
  \/ TaskReturn
  \/ CancelOffThreadDelazify
  \/ CancelOffThreadDelazifyWake

SpecDelazify == Init /\ [][NextDelazify]_vars

NextDelazifyWait ==
  \/ SubmitDelazify
  \/ SubmitDelazifyConcurrent
  \/ TaskStart
  \/ TaskReturn
  \/ WaitForAllDelazifyTasks
  \/ WaitForAllDelazifyTasksWake

SpecDelazifyWait == Init /\ [][NextDelazifyWait]_vars

\* Workers are scheduled fairly and a blocked producer that has been
\* notified runs again.
FairSpecDelazifyWait ==
  /\ SpecDelazifyWait
  /\ WF_vars(TaskStart \/ TaskReturn \/ WaitForAllDelazifyTasksWake)

(***************************************************************************)
(* Configuration before first use: the constructor, SetFakeCPUCount,         *)
(* SetHelperThreadTaskCallback, EnsureHelperThreadsInitialized.              *)
(***************************************************************************)
\* The CPU counts GetCPUCount() reports.
ProbedCPUCounts == {1, 2, 3, 8, 9, 16}

\* The arguments of SetFakeCPUCount.
FakeCPUCounts == {1, 2, 3, 4}

\* The threadCount arguments of SetHelperThreadTaskCallback (non-zero).
CallbackThreadCounts == {1, 2, 3, 4}

\* The producer after a configuration call; v is the call's argument.
Configured(op, v) ==
  [pc |-> "ret", op |-> op, sel |-> [by |-> "count", v |-> v, st |-> 0],
   moved |-> {}, waited |-> FALSE]

\* Before js::CreateHelperThreadsState: the member initializers of the
\* constructor (cpuCount(0), threadCount(0)).
InitNotCreated ==
  /\ hts = [Constructed(0) EXCEPT !.cpuCount = 0, !.threadCount = 0,
                                  !.gcParallelThreadCount = 0]
  /\ tasks = <<>>
  /\ prod = Idle
  /\ pick = NoPick

\* gHelperThreadState exists.
Created == hts.threadCount # 0

\* js::CreateHelperThreadsState on a machine with c CPUs.
CreateHelperThreadsState ==
  /\ ~Created
  /\ \E c \in ProbedCPUCounts :
       /\ hts' = Constructed(c)
       /\ prod' = Configured("GlobalHelperThreadState", c)
  /\ UNCHANGED <<tasks, pick>>

SetFakeCPUCount ==
  /\ Created
  /\ ~hts.isInitialized_
  /\ ~hts.dispatchTaskCallback
  /\ \E count \in FakeCPUCounts :
       /\ hts' = setCpuCount(hts, count)
       /\ prod' = Configured("SetFakeCPUCount", count)
  /\ UNCHANGED <<tasks, pick>>

SetHelperThreadTaskCallback ==
  /\ Created
  /\ ~hts.isInitialized_
  /\ ~hts.dispatchTaskCallback
  /\ \E threadCount \in CallbackThreadCounts :
       /\ hts' = setDispatchTaskCallback(hts, threadCount)
       /\ prod' = Configured("SetHelperThreadTaskCallback", threadCount)
  /\ UNCHANGED <<tasks, pick>>

\* js::EnsureHelperThreadsInitialized(), which any thread that is about to
\* use the helper threads calls, the first time or again.
EnsureHelperThreadsInitialized ==
  /\ Created
  /\ ProducerFree
  /\ hts' = ensureInitialized(hts)
  /\ prod' = Configured("EnsureHelperThreadsInitialized", 0)
  /\ UNCHANGED <<tasks, pick>>

NextConfig ==
  \/ CreateHelperThreadsState
  \/ SetFakeCPUCount
  \/ SetHelperThreadTaskCallback
  \/ EnsureHelperThreadsInitialized

SpecConfig == InitNotCreated /\ [][NextConfig]_vars

(***************************************************************************)
(* waitForAllTasksLocked (js::WaitForAllHelperThreads).                      *)
(***************************************************************************)
\* The configurations setDispatchTaskCallback permits: any non-zero thread
\* count.
PermittedConfigs == Configs \cup {<<2, 1>>}

InitPermitted ==
  /\ \E c \in PermittedConfigs :
       hts = EnsureInitialized(
               setDispatchTaskCallback(Constructed(c[1]), c[2]))
  /\ tasks = <<>>
  /\ prod = Idle
  /\ pick = NoPick

\* The running Tier2GeneratorTasks.
RunningTier2Generators(h) ==
  {t \in Range(h.helperTasks) : tasks[t].kind = WASM_GENERATOR_TIER2}

WaitAllProd(op, pc, old, waited) ==
  [pc |-> pc, op |-> op,
   sel |-> [by |-> "oldFinishedCount", v |-> old, st |-> 0],
   moved |-> {}, waited |-> waited]

\* The rest of finish() after waitForAllTasksLocked: finishThreads sets
\* terminating_, then the JIT-free list is emptied, each compile task being
\* freed in place.
\* A mutation of finishAfterWait: every queued parse task is dropped too.
finishAfterWaitDropsParse(h) ==
  [h EXCEPT !.terminating_ = TRUE, !.ionFreeList = <<>>,
            !.parseWorklist = <<>>]

finishAfterWait(h) == [h EXCEPT !.terminating_ = TRUE, !.ionFreeList = <<>>]

\* One evaluation of the loop condition of waitForAllTasksLocked on state h
\* with task objects T, and what follows it when the loop ends.  The thread
\* that called finish() is shutting the coordinator down and calls nothing
\* after it (pc "done").
WaitAllLoop(op, h, T, waited) ==
  LET busy == canStartTasks(h) \/ h.tasksPending_ # 0 \/ h.helperTasks # <<>>
  IN IF busy
       THEN /\ hts' = h
            /\ tasks' = T
            /\ prod' = WaitAllProd(op, "allWait", 0, TRUE)
     ELSE IF op = "finish"
       THEN /\ hts' = finishAfterWait(h)
            /\ tasks' = [t \in DOMAIN T |->
                           IF t \in Range(h.ionFreeList)
                             THEN [T[t] EXCEPT !.fate = "destroyed"]
                             ELSE T[t]]
            /\ prod' = WaitAllProd(op, "done", 0, waited)
     ELSE /\ hts' = h
          /\ tasks' = T
          /\ prod' = WaitAllProd(op, "ret", 0, waited)

\* waitForAllTasksLocked called as op: CancelOffThreadWasmTier2GeneratorLocked
\* deletes the queued generator tasks and cancels and waits for a running
\* one; then the loop.
WaitForAllTasks(op) ==
  /\ ProducerFree
  /\ LET queued == Range(hts.wasmTier2GeneratorWorklist)
         gens == RunningTier2Generators(hts)
         h1 == [hts EXCEPT !.wasmTier2GeneratorWorklist = <<>>]
         T1 == [t \in TaskIds |->
                  IF t \in queued
                    THEN [tasks[t] EXCEPT !.fate = "destroyed"]
                  ELSE IF t \in gens
                    THEN [tasks[t] EXCEPT !.cancel = TRUE]
                  ELSE tasks[t]]
     IN IF ~hts.isInitialized_
          THEN WaitAllLoop(op, hts, tasks, FALSE)
        ELSE IF gens # {}
          THEN /\ hts' = h1
               /\ tasks' = T1
               /\ prod' = WaitAllProd(op, "t2Wait",
                                      hts.wasmTier2GeneratorsFinished_, TRUE)
        ELSE WaitAllLoop(op, h1, T1, FALSE)
  /\ pick' = NoPick

\* js::WaitForAllHelperThreads()
WaitForAllHelperThreads == WaitForAllTasks("waitForAllTasksLocked")

\* The caller wakes up in one of the two wait loops.
WaitForAllHelperThreadsWake ==
  /\ prod.pc \in {"t2Wait", "allWait"}
  /\ IF prod.pc = "t2Wait" /\ hts.wasmTier2GeneratorsFinished_ = prod.sel.v
       THEN UNCHANGED <<hts, prod, tasks>>
       ELSE WaitAllLoop(prod.op, hts, tasks, TRUE)
  /\ pick' = NoPick

NextWaitAll ==
  \/ Submit
  \/ TaskStart
  \/ TaskReturn
  \/ StartHandlingCompressionsOnGC
  \/ FinishParseTask
  \/ WaitForAllHelperThreads
  \/ WaitForAllHelperThreadsWake

SpecWaitAll == InitPermitted /\ [][NextWaitAll]_vars

(***************************************************************************)
(* cancelParseTask(rt, token) and finish().                                  *)
(***************************************************************************)
CancelParseProd(pc, t, moved, waited) ==
  [pc |-> pc, op |-> "cancelParseTask",
   sel |-> [by |-> "token", v |-> t, st |-> 0],
   moved |-> moved, waited |-> waited]

\* A mutation of cancelParseTask: a queued task is moved to the finished
\* list instead of being deleted.
CancelParseLoopToFinished(t, queued, waited) ==
  IF queued /\ t \in Range(hts.parseWorklist)
    THEN LET i == CHOOSE j \in 1..Len(hts.parseWorklist) :
                    hts.parseWorklist[j] = t
         IN /\ hts' = [hts EXCEPT !.parseWorklist = Remove(@, i),
                                  !.parseFinishedList = Append(@, t)]
            /\ tasks' = tasks
            /\ prod' = CancelParseProd("ret", t, {t}, waited)
  ELSE IF t \in Range(hts.helperTasks)
    THEN /\ UNCHANGED <<hts, tasks>>
         /\ prod' = CancelParseProd("parseWait", t, {}, TRUE)
  ELSE IF t \in Range(hts.parseFinishedList)
    THEN /\ hts' = [hts EXCEPT !.parseFinishedList = EraseIfEqual(@, t)]
         /\ tasks' = [tasks EXCEPT ![t].fate = "destroyed"]
         /\ prod' = CancelParseProd("ret", t, {}, waited)
  ELSE /\ UNCHANGED <<hts, tasks>>
       /\ prod' = CancelParseProd("ret", t, {}, waited)

\* A mutation of cancelParseTask: a running task is not waited for.
CancelParseLoopNoWait(t, queued, waited) ==
  IF queued /\ t \in Range(hts.parseWorklist)
    THEN LET i == CHOOSE j \in 1..Len(hts.parseWorklist) :
                    hts.parseWorklist[j] = t
         IN /\ hts' = [hts EXCEPT !.parseWorklist = Remove(@, i)]
            /\ tasks' = [tasks EXCEPT ![t].fate = "destroyed"]
            /\ prod' = CancelParseProd("ret", t, {t}, waited)
  ELSE IF t \in Range(hts.parseFinishedList)
    THEN /\ hts' = [hts EXCEPT !.parseFinishedList = EraseIfEqual(@, t)]
         /\ tasks' = [tasks EXCEPT ![t].fate = "destroyed"]
         /\ prod' = CancelParseProd("ret", t, {}, waited)
  ELSE /\ UNCHANGED <<hts, tasks>>
       /\ prod' = CancelParseProd("ret", t, {}, waited)

\* cancelParseTask from the lock on (queued: the worklist is searched, which
\* happens once, at the call) or from a wake-up in its wait loop.  A queued
\* task is taken out of the vector of UniquePtrs, which deletes it; a
\* running task is waited for; a finished task is unlinked and destroyed.
CancelParseLoop(t, queued, waited) ==
  IF queued /\ t \in Range(hts.parseWorklist)
    THEN LET i == CHOOSE j \in 1..Len(hts.parseWorklist) :
                    hts.parseWorklist[j] = t
         IN /\ hts' = [hts EXCEPT !.parseWorklist = Remove(@, i)]
            /\ tasks' = [tasks EXCEPT ![t].fate = "destroyed"]
            /\ prod' = CancelParseProd("ret", t, {t}, waited)
  ELSE IF t \in Range(hts.helperTasks)
    THEN /\ UNCHANGED <<hts, tasks>>
         /\ prod' = CancelParseProd("parseWait", t, {}, TRUE)
  ELSE IF t \in Range(hts.parseFinishedList)
    THEN /\ hts' = [hts EXCEPT !.parseFinishedList = EraseIfEqual(@, t)]
         /\ tasks' = [tasks EXCEPT ![t].fate = "destroyed"]
         /\ prod' = CancelParseProd("ret", t, {}, waited)
  ELSE /\ UNCHANGED <<hts, tasks>>
       /\ prod' = CancelParseProd("ret", t, {}, waited)

\* cancelParseTask(rt, token): the producer cancels a parse task whose token
\* it still holds.
CancelParseTask ==
  /\ ProducerFree
  /\ \E t \in TaskIds :
       /\ tasks[t].kind = PARSE
       /\ tasks[t].fate = "live"
       /\ CancelParseLoop(t, TRUE, FALSE)
  /\ pick' = NoPick

CancelParseTaskWake ==
  /\ prod.pc = "parseWait"
  /\ CancelParseLoop(prod.sel.v, FALSE, TRUE)
  /\ pick' = NoPick

\* GlobalHelperThreadState::finish, called by js::DestroyHelperThreadsState.
Finish ==
  /\ hts.isInitialized_
  /\ WaitForAllTasks("finish")

NextShutdown ==
  \/ NextWaitAll
  \/ CancelParseTask
  \/ CancelParseTaskWake
  \/ Finish

SpecShutdown == InitPermitted /\ [][NextShutdown]_vars

(***************************************************************************)
(* js::CancelOffThreadParses(rt) beside parse tasks of two runtimes.         *)
(***************************************************************************)
\* The parse tasks the producers submit, by ordinal.
ParseBatch == {1, 2, 3}

ParseShapes == {NewTask(PARSE, rt, 0, 0, 0, 0, NoTask) : rt \in Runtimes}

SubmitParse ==
  /\ NumSubmitted + 1 \in ParseBatch
  /\ \E obj \in ParseShapes : SubmitTask(obj)

\* The first loop of WaitForOffThreadParses: a task of rt in the worklist.
ParsePending(h, rt) ==
  \E i \in 1..Len(h.parseWorklist) : tasks[h.parseWorklist[i]].rt = rt

\* The second loop: a parse task of rt in the registry.
ParseInProgress(h, rt) ==
  \E i \in 1..Len(h.helperTasks) :
    /\ tasks[h.helperTasks[i]].kind = PARSE
    /\ tasks[h.helperTasks[i]].rt = rt

\* A mutation of WaitForOffThreadParses: the worklist is not looked at.
WaitForOffThreadParsesMustWaitRunningOnly(h, rt) ==
  h.isInitialized_ /\ ParseInProgress(h, rt)

\* Whether WaitForOffThreadParses calls wait(lock) on this round.
WaitForOffThreadParsesMustWait(h, rt) ==
  h.isInitialized_ /\ (ParsePending(h, rt) \/ ParseInProgress(h, rt))

RECURSIVE CancelFinishedParses(_, _, _)
\* The scan of the finished list in CancelOffThreadParses from index i on:
\* a task of rt is unlinked and destroyed.
CancelFinishedParses(list, i, rt) ==
  IF i > Len(list) THEN list
  ELSE IF tasks[list[i]].rt = rt
    THEN CancelFinishedParses(Remove(list, i), i, rt)
    ELSE CancelFinishedParses(list, i + 1, rt)

CancelParsesProd(pc, rt, atCall, waited) ==
  [pc |-> pc, op |-> "CancelOffThreadParses",
   sel |-> [by |-> "runtime", v |-> rt, st |-> 0],
   moved |-> atCall, waited |-> waited]

\* CancelOffThreadParses from the lock on, or from a wake-up in the wait of
\* WaitForOffThreadParses.  atCall: the parse tasks of rt that were queued
\* or running at the call.
CancelParsesLoop(rt, atCall, waited) ==
  IF WaitForOffThreadParsesMustWait(hts, rt)
    THEN /\ UNCHANGED <<hts, tasks>>
         /\ prod' = CancelParsesProd("parsesWait", rt, atCall, TRUE)
    ELSE LET rest == CancelFinishedParses(hts.parseFinishedList, 1, rt)
             freed == Range(hts.parseFinishedList) \ Range(rest)
         IN /\ hts' = [hts EXCEPT !.parseFinishedList = rest]
            /\ tasks' = [t \in TaskIds |->
                           IF t \in freed
                             THEN [tasks[t] EXCEPT !.fate = "destroyed"]
                             ELSE tasks[t]]
            /\ prod' = CancelParsesProd("ret", rt, atCall, waited)

CancelOffThreadParses ==
  /\ ProducerFree
  /\ \E rt \in Runtimes :
       CancelParsesLoop(
         rt,
         {t \in Range(hts.parseWorklist) \cup Range(hts.helperTasks) :
            tasks[t].kind = PARSE /\ tasks[t].rt = rt},
         FALSE)
  /\ pick' = NoPick

CancelOffThreadParsesWake ==
  /\ prod.pc = "parsesWait"
  /\ CancelParsesLoop(prod.sel.v, prod.moved, TRUE)
  /\ pick' = NoPick

NextParses ==
  \/ SubmitParse
  \/ TaskStart
  \/ TaskReturn
  \/ FinishParseTask
  \/ CancelOffThreadParses
  \/ CancelOffThreadParsesWake

SpecParses == Init /\ [][NextParses]_vars

(***************************************************************************)
(* js::CancelOffThreadCompressions(runtime) beside compression tasks of two  *)
(* runtimes.                                                                 *)
(***************************************************************************)
\* The compression tasks the producers enqueue, by ordinal.
CompressBatch == {1, 2, 3}

\* js::EnqueueOffThreadCompression
EnqueueOffThreadCompression ==
  /\ NumSubmitted + 1 \in CompressBatch
  /\ \E obj \in Shapes(COMPRESS) : SubmitTask(obj)

RECURSIVE ClearCompressionTaskListSkipping(_, _, _)
\* A mutation of ClearCompressionTaskList: the element that remove() moved
\* into the vacated slot is not examined.
ClearCompressionTaskListSkipping(list, i, runtime) ==
  IF i > Len(list) THEN list
  ELSE IF tasks[list[i]].rt = runtime
    THEN ClearCompressionTaskListSkipping(Remove(list, i), i + 1, runtime)
    ELSE ClearCompressionTaskListSkipping(list, i + 1, runtime)

RECURSIVE ClearCompressionTaskList(_, _, _)
\* ClearCompressionTaskList(list, runtime) from index i on: remove() leaves
\* the index on the slot it refilled.
ClearCompressionTaskList(list, i, runtime) ==
  IF i > Len(list) THEN list
  ELSE IF tasks[list[i]].rt = runtime
    THEN ClearCompressionTaskList(Remove(list, i), i, runtime)
    ELSE ClearCompressionTaskList(list, i + 1, runtime)

\* The loop over helperTasks in CancelOffThreadCompressions.
CompressionInProgress(h, runtime) ==
  \E i \in 1..Len(h.helperTasks) :
    /\ tasks[h.helperTasks[i]].kind = COMPRESS
    /\ tasks[h.helperTasks[i]].rt = runtime

CancelCompressionsProd(pc, runtime, removed, waited) ==
  [pc |-> pc, op |-> "CancelOffThreadCompressions",
   sel |-> [by |-> "runtime", v |-> runtime, st |-> 0],
   moved |-> removed, waited |-> waited]

\* CancelOffThreadCompressions from its wait loop on, on state h with the
\* task records T: wait while a task of the runtime is running, then clear
\* the finished list.  removed: the tasks the call took off the pending
\* list and the worklist.
CancelCompressionsLoop(h, T, runtime, removed, waited) ==
  IF CompressionInProgress(h, runtime)
    THEN /\ hts' = h
         /\ tasks' = T
         /\ prod' = CancelCompressionsProd("compressWait", runtime, removed,
                                            TRUE)
    ELSE LET rest == ClearCompressionTaskList(h.compressionFinishedList, 1,
                                              runtime)
             freed == Range(h.compressionFinishedList) \ Range(rest)
         IN /\ hts' = [h EXCEPT !.compressionFinishedList = rest]
            /\ tasks' = [t \in TaskIds |->
                           IF t \in freed
                             THEN [T[t] EXCEPT !.fate = "destroyed"]
                             ELSE T[t]]
            /\ prod' = CancelCompressionsProd("ret", runtime, removed, waited)

\* js::CancelOffThreadCompressions(runtime) up to its first wait or its
\* return.  CanUseExtraThreads() holds wherever the state is initialized
\* (ensureInitialized asserts it).  The tasks taken off the two vectors of
\* UniquePtrs are deleted.
CancelOffThreadCompressions ==
  /\ ProducerFree
  /\ hts.isInitialized_
  /\ \E runtime \in Runtimes :
       LET pending == ClearCompressionTaskList(hts.compressionPendingList, 1,
                                               runtime)
           worklist == ClearCompressionTaskList(hts.compressionWorklist, 1,
                                                runtime)
           removed ==
             (Range(hts.compressionPendingList) \ Range(pending))
               \cup (Range(hts.compressionWorklist) \ Range(worklist))
       IN CancelCompressionsLoop(
            [hts EXCEPT !.compressionPendingList = pending,
                        !.compressionWorklist = worklist],
            [t \in TaskIds |->
               IF t \in removed THEN [tasks[t] EXCEPT !.fate = "destroyed"]
               ELSE tasks[t]],
            runtime, removed, FALSE)
  /\ pick' = NoPick

\* The producer wakes up in wait(lock) and goes round the loop again.
CancelOffThreadCompressionsWake ==
  /\ prod.pc = "compressWait"
  /\ CancelCompressionsLoop(hts, tasks, prod.sel.v, prod.moved, TRUE)
  /\ pick' = NoPick

NextCompress ==
  \/ EnqueueOffThreadCompression
  \/ StartHandlingCompressionsOnGC
  \/ TaskStart
  \/ TaskReturn
  \/ CancelOffThreadCompressions
  \/ CancelOffThreadCompressionsWake

SpecCompress == Init /\ [][NextCompress]_vars

(***************************************************************************)
(* js::CancelOffThreadWasmTier2Generator() on its own.                       *)
(***************************************************************************)
\* The tasks the producer submits, by ordinal.
Tier2Batch == {1, 2, 3}

\* Generator tasks beside a kind that keeps a second thread busy.
Tier2Kinds == {WASM_GENERATOR_TIER2, GCPARALLEL}

SubmitTier2 ==
  /\ NumSubmitted + 1 \in Tier2Batch
  /\ \E kind \in Tier2Kinds : \E obj \in Shapes(kind) : SubmitTask(obj)

\* A mutation of the wait condition: the counter is not compared.
Tier2CancelMustWaitNever(h, oldFinishedCount) == FALSE

\* while (wasmTier2GeneratorsFinished(lock) == oldFinishedCount)
Tier2CancelMustWait(h, oldFinishedCount) ==
  h.wasmTier2GeneratorsFinished_ = oldFinishedCount

\* removed: the generator tasks the call deleted from the worklist; gen: the
\* generator task that was running at the call (NoTask if none).
Tier2CancelProd(pc, oldFinishedCount, gen, removed, waited) ==
  [pc |-> pc, op |-> "CancelOffThreadWasmTier2Generator",
   sel |-> [by |-> "oldFinishedCount", v |-> oldFinishedCount, st |-> gen],
   moved |-> removed, waited |-> waited]

\* js::CancelOffThreadWasmTier2Generator up to its wait or its return: the
\* queued generator tasks are removed and deleted, a running one has its
\* cancel flag set and is waited for.
CancelOffThreadWasmTier2Generator ==
  /\ ProducerFree
  /\ LET queued == Range(hts.wasmTier2GeneratorWorklist)
         gens == RunningTier2Generators(hts)
         old == hts.wasmTier2GeneratorsFinished_
     IN IF ~hts.isInitialized_
          THEN /\ UNCHANGED <<hts, tasks>>
               /\ prod' = Tier2CancelProd("ret", old, NoTask, {}, FALSE)
          ELSE /\ hts' = [hts EXCEPT !.wasmTier2GeneratorWorklist = <<>>]
               /\ tasks' = [t \in TaskIds |->
                              IF t \in queued
                                THEN [tasks[t] EXCEPT !.fate = "destroyed"]
                              ELSE IF t \in gens
                                THEN [tasks[t] EXCEPT !.cancel = TRUE]
                              ELSE tasks[t]]
               /\ prod' = IF gens = {}
                            THEN Tier2CancelProd("ret", old, NoTask, queued,
                                                 FALSE)
                            ELSE Tier2CancelProd("t2CancelWait", old,
                                                 CHOOSE t \in gens : TRUE,
                                                 queued, TRUE)
  /\ pick' = NoPick

\* The producer wakes up in wait(lock) and tests the counter again.
CancelOffThreadWasmTier2GeneratorWake ==
  /\ prod.pc = "t2CancelWait"
  /\ UNCHANGED <<hts, tasks>>
  /\ prod' = IF Tier2CancelMustWait(hts, prod.sel.v)
               THEN prod
               ELSE [prod EXCEPT !.pc = "ret"]
  /\ pick' = NoPick

NextTier2Cancel ==
  \/ SubmitTier2
  \/ TaskStart
  \/ TaskReturn
  \/ CancelOffThreadWasmTier2Generator
  \/ CancelOffThreadWasmTier2GeneratorWake

SpecTier2Cancel == Init /\ [][NextTier2Cancel]_vars

(***************************************************************************)
(* Work that another thread submits after finish() has set terminating_.     *)
(***************************************************************************)
\* Kinds that threads other than the one in finish() submit.
LateKinds == {GCPARALLEL, PROMISE_TASK}

\* A submission that arrives after finishThreads: the thread in finish()
\* stays where it is.
SubmitLate ==
  /\ hts.terminating_
  /\ NumSubmitted < MaxTasks
  /\ \E kind \in LateKinds : \E obj \in Shapes(kind) :
       LET t == Len(tasks) + 1
       IN /\ tasks' = Append(tasks, obj)
          /\ hts' = submitTask(hts, kind, t)
  /\ UNCHANGED prod
  /\ pick' = NoPick

\* JS::RunHelperThreadTask called with terminating_ set: it returns before
\* runOneTask, so tasksPending_ keeps counting the callback.
RunHelperThreadTaskTerminating ==
  /\ hts.pendingCallbacks > 0
  /\ isTerminating(hts)
  /\ hts' = [hts EXCEPT !.pendingCallbacks = @ - 1]
  /\ UNCHANGED <<tasks, prod>>
  /\ pick' = NoPick

NextLate ==
  \/ NextShutdown
  \/ SubmitLate
  \/ RunHelperThreadTaskTerminating

SpecLate == InitPermitted /\ [][NextLate]_vars

(***************************************************************************)
(* js::RunPendingSourceCompressions(runtime).                                *)
(***************************************************************************)
\* Compression tasks beside tier-2 generator tasks, which
\* waitForAllTasksLocked cancels.
RunPendingKinds == {COMPRESS, WASM_GENERATOR_TIER2}

SubmitRunPending ==
  /\ NumSubmitted < MaxTasks
  /\ \E kind \in RunPendingKinds : \E obj \in Shapes(kind) : SubmitTask(obj)

RECURSIVE AttachFinishedCompressionsKeepsSlot(_, _, _)
\* A mutation of AttachFinishedCompressions: the element that remove() moved
\* into the vacated slot is not examined.
AttachFinishedCompressionsKeepsSlot(finished, i, runtime) ==
  IF i > Len(finished) THEN finished
  ELSE IF tasks[finished[i]].rt = runtime
    THEN AttachFinishedCompressionsKeepsSlot(Remove(finished, i), i + 1,
                                             runtime)
    ELSE AttachFinishedCompressionsKeepsSlot(finished, i + 1, runtime)

RECURSIVE AttachFinishedCompressions(_, _, _)
\* js::AttachFinishedCompressions(runtime, lock) from index i on: a task of
\* the runtime is taken off the finished list and completed.
AttachFinishedCompressions(finished, i, runtime) ==
  IF i > Len(finished) THEN finished
  ELSE IF tasks[finished[i]].rt = runtime
    THEN AttachFinishedCompressions(Remove(finished, i), i, runtime)
    ELSE AttachFinishedCompressions(finished, i + 1, runtime)

RunPendingProd(pc, runtime, oldFinishedCount, waited) ==
  [pc |-> pc, op |-> "RunPendingSourceCompressions",
   sel |-> [by |-> "runtime", v |-> runtime, st |-> oldFinishedCount],
   moved |-> {}, waited |-> waited]

\* The wait loop of waitForAllTasksLocked, then AttachFinishedCompressions
\* and the return.
RunPendingAll(h, T, runtime, waited) ==
  IF canStartTasks(h) \/ h.tasksPending_ # 0 \/ h.helperTasks # <<>>
    THEN /\ hts' = h
         /\ tasks' = T
         /\ prod' = RunPendingProd("rpAllWait", runtime, 0, TRUE)
    ELSE LET rest == AttachFinishedCompressions(h.compressionFinishedList, 1,
                                                runtime)
             attached == Range(h.compressionFinishedList) \ Range(rest)
         IN /\ hts' = [h EXCEPT !.compressionFinishedList = rest]
            /\ tasks' = [t \in DOMAIN T |->
                           IF t \in attached
                             THEN [T[t] EXCEPT !.fate = "reclaimed"]
                             ELSE T[t]]
            /\ prod' = RunPendingProd("ret", runtime, 0, waited)

\* The start of waitForAllTasksLocked, CancelOffThreadWasmTier2GeneratorLocked:
\* queued generator tasks are deleted, a running one is cancelled and waited
\* for.
RunPendingTier2(h, T, runtime, waited) ==
  LET queued == Range(h.wasmTier2GeneratorWorklist)
      gens == RunningTier2Generators(h)
      h1 == [h EXCEPT !.wasmTier2GeneratorWorklist = <<>>]
      T1 == [t \in DOMAIN T |->
               IF t \in queued THEN [T[t] EXCEPT !.fate = "destroyed"]
               ELSE IF t \in gens THEN [T[t] EXCEPT !.cancel = TRUE]
               ELSE T[t]]
  IN IF gens # {}
       THEN /\ hts' = h1
            /\ tasks' = T1
            /\ prod' = RunPendingProd("rpT2Wait", runtime,
                                       h.wasmTier2GeneratorsFinished_, TRUE)
       ELSE RunPendingAll(h1, T1, runtime, waited)

\* The first wait loop: until the compression worklist is empty.
RunPendingWorklist(h, T, runtime, waited) ==
  IF h.compressionWorklist # <<>>
    THEN /\ hts' = h
         /\ tasks' = T
         /\ prod' = RunPendingProd("rpWorklistWait", runtime, 0, TRUE)
    ELSE RunPendingTier2(h, T, runtime, waited)

\* js::RunPendingSourceCompressions(runtime) up to its first wait or its
\* return: every pending task is submitted (API mode); oom are the tasks
\* whose append fails, which are deleted.
RunPendingSourceCompressions ==
  /\ ProducerFree
  /\ hts.isInitialized_
  /\ \E runtime \in Runtimes :
       \E oom \in SUBSET Range(hts.compressionPendingList) :
         RunPendingWorklist(
           startHandlingCompressionTasks(hts, TRUE, [rt |-> runtime, ss |-> {}],
                                         oom),
           [t \in TaskIds |->
              IF t \in oom THEN [tasks[t] EXCEPT !.fate = "destroyed"]
              ELSE tasks[t]],
           runtime, FALSE)
  /\ pick' = NoPick

\* The caller wakes up in one of its three wait loops.
RunPendingSourceCompressionsWake ==
  /\ prod.op = "RunPendingSourceCompressions"
  /\ CASE prod.pc = "rpWorklistWait" ->
            RunPendingWorklist(hts, tasks, prod.sel.v, TRUE)
       [] prod.pc = "rpT2Wait" ->
            IF hts.wasmTier2GeneratorsFinished_ = prod.sel.st
              THEN UNCHANGED <<hts, tasks, prod>>
              ELSE RunPendingAll(hts, tasks, prod.sel.v, TRUE)
       [] prod.pc = "rpAllWait" ->
            RunPendingAll(hts, tasks, prod.sel.v, TRUE)
       [] OTHER -> FALSE
  /\ pick' = NoPick

NextRunPending ==
  \/ SubmitRunPending
  \/ StartHandlingCompressionsOnGC
  \/ TaskStart
  \/ TaskReturn
  \/ RunPendingSourceCompressions
  \/ RunPendingSourceCompressionsWake

SpecRunPending == Init /\ [][NextRunPending]_vars

\* Each callback is answered, each task body returns and a notified waiter
\* runs again.
FairSpecRunPending ==
  /\ SpecRunPending
  /\ WF_vars(TaskStart \/ TaskReturn)
  /\ WF_vars(RunPendingSourceCompressionsWake)

(***************************************************************************)
(* From construction to shutdown: configuration, initialization, work,       *)
(* finish.                                                                   *)
(***************************************************************************)
\* The kinds submitted once the state is initialized.
LifecycleKinds == {GCPARALLEL, PARSE}

SubmitLifecycle ==
  /\ NumSubmitted < MaxTasks
  /\ \E kind \in LifecycleKinds : \E obj \in Shapes(kind) : SubmitTask(obj)

NextLifecycle ==
  \/ NextConfig
  \/ SubmitLifecycle
  \/ TaskStart
  \/ TaskReturn
  \/ Finish
  \/ WaitForAllHelperThreadsWake

SpecLifecycle == InitNotCreated /\ [][NextLifecycle]_vars

(***************************************************************************)
(* Wasm compilation beside a backlog of tier-2 generator tasks.              *)
(***************************************************************************)
\* <<probed CPU count, thread count given to setDispatchTaskCallback>>
WasmConfigs == {<<3, 3>>, <<2, 4>>, <<4, 2>>}

\* The numbers of tier-2 generator tasks submitted before the first worker
\* runs: the threshold and one past it.
Backlogs == {20, 21}

\* The compile tasks the producer submits, by ordinal.
WasmBatch == {1, 2, 3}

\* n calls of js::StartOffThreadWasmTier2Generator on the initialized state
\* h, for the tasks 1..n, no worker having run yet: each submitTask appends
\* its task and calls dispatch, which issues a callback if the generator is
\* admissible (with all threads idle it is, unless there is a single
\* thread) and tasksPending_ is below threadCount.
StartOffThreadWasmTier2Generators(h, n) ==
  LET q == [h EXCEPT !.wasmTier2GeneratorWorklist = [i \in 1..n |-> i]]
      k == IF canStartTasks(q) THEN Min(n, h.threadCount) ELSE 0
  IN [q EXCEPT !.tasksPending_ = k, !.pendingCallbacks = k]

InitWasm ==
  /\ \E c \in WasmConfigs, n \in Backlogs :
       /\ hts = StartOffThreadWasmTier2Generators(
                  EnsureInitialized(
                    setDispatchTaskCallback(Constructed(c[1]), c[2])), n)
       /\ tasks = [i \in 1..n |->
                     NewTask(WASM_GENERATOR_TIER2, 0, 0, 0, 0, 0, NoTask)]
  /\ prod = Idle
  /\ pick = NoPick

WasmCompileKinds == {WASM_COMPILE_TIER1, WASM_COMPILE_TIER2}

\* js::StartOffThreadWasmCompile(task, mode)
StartOffThreadWasmCompile ==
  /\ Cardinality({t \in TaskIds : tasks[t].kind \in WasmCompileKinds}) + 1
       \in WasmBatch
  /\ \E mode \in WasmCompileKinds :
       SubmitTask(NewTask(mode, 0, 0, 0, 0, 0, NoTask))

NextWasm ==
  \/ StartOffThreadWasmCompile
  \/ TaskStart
  \/ TaskReturn

SpecWasm == InitWasm /\ [][NextWasm]_vars

(***************************************************************************)
(* Ion compile tasks of different priorities.                                *)
(***************************************************************************)
\* The Ion tasks the producer submits, by ordinal.
IonBatch == {1, 2, 3}

\* <<warmUpCount(), length()>> of the scripts compiled: quotients 1, 3, 2
\* and 2, the last two from different exact ratios.
IonScripts == {<<1, 1>>, <<3, 1>>, <<4, 2>>, <<5, 2>>}

\* js::StartOffThreadIonCompile(task) for scripts of both runtimes.
StartOffThreadIonCompile ==
  /\ Cardinality({t \in TaskIds : tasks[t].kind = ION}) + 1 \in IonBatch
  /\ \E z \in {1, 3}, s \in IonScripts :
       SubmitTask(NewTask(ION, ZoneRuntime(z), z, s[1], s[2], 0, NoTask))

NextIonPriority ==
  \/ StartOffThreadIonCompile
  \/ TaskStart
  \/ TaskReturn

SpecIonPriority == Init /\ [][NextIonPriority]_vars

(***************************************************************************)
(* A pool that has as many threads as setDispatchTaskCallback was told, or   *)
(* one more.                                                                 *)
(***************************************************************************)
\* The threads the pool has beyond the threadCount it reported.
ExtraPoolThreads == {0, 1}

\* The tasks the producer submits, by ordinal.
PoolBatch == {1, 2, 3}

\* A kind that is counted (parse, a master kind) and two that are not (JIT
\* compile and GC-parallel, whose limit is threadCount).
PoolKinds == {ION, PARSE, GCPARALLEL}

InitPool ==
  /\ \E c \in Configs, extra \in ExtraPoolThreads :
       hts = [EnsureInitialized(
                setDispatchTaskCallback(Constructed(c[1]), c[2]))
                EXCEPT !.poolThreads = c[2] + extra]
  /\ tasks = <<>>
  /\ prod = Idle
  /\ pick = NoPick

SubmitPool ==
  /\ NumSubmitted + 1 \in PoolBatch
  /\ \E kind \in PoolKinds : \E obj \in Shapes(kind) : SubmitTask(obj)

NextPool ==
  \/ SubmitPool
  \/ TaskStart
  \/ TaskReturn

SpecPool == InitPool /\ [][NextPool]_vars

(***************************************************************************)
(* Containers of the coordinator.                                            *)
(***************************************************************************)
Occurrences(s, t) == Cardinality({i \in 1..Len(s) : s[i] = t})

InSomeWorklist(h, t) == \E k \in ThreadTypes : t \in Range(WorklistOf(h, k))

FinishedLists(h) ==
  {h.ionFinishedList, h.parseFinishedList, h.compressionFinishedList}

\* In how many of {its kind's worklist, the registry, a finished list} the
\* task is, counted with multiplicity.
ContainerCount(h, t) ==
  Occurrences(WorklistOf(h, tasks[t].kind), t)
    + Occurrences(h.helperTasks, t)
    + Occurrences(h.ionFinishedList, t)
    + Occurrences(h.parseFinishedList, t)
    + Occurrences(h.compressionFinishedList, t)

\* The kind a selector serves.
SelectorKind(name) ==
  CASE name = "maybeGetGCParallelTask" -> GCPARALLEL
    [] name = "maybeGetIonCompileTask" -> ION
    [] name = "maybeGetWasmTier1CompileTask" -> WASM_COMPILE_TIER1
    [] name = "maybeGetPromiseHelperTask" -> PROMISE_TASK
    [] name = "maybeGetParseTask" -> PARSE
    [] name = "maybeGetFreeDelazifyTask" -> DELAZIFY_FREE
    [] name = "maybeGetDelazifyTask" -> DELAZIFY
    [] name = "maybeGetCompressionTask" -> COMPRESS
    [] name = "maybeGetLowPrioIonCompileTask" -> ION
    [] name = "maybeGetIonFreeTask" -> ION_FREE
    [] name = "maybeGetWasmTier2CompileTask" -> WASM_COMPILE_TIER2
    [] name = "maybeGetWasmTier2GeneratorTask" -> WASM_GENERATOR_TIER2

\* The selector order as the specification lists it.
ListedOrder ==
  <<"maybeGetGCParallelTask", "maybeGetIonCompileTask",
    "maybeGetWasmTier1CompileTask", "maybeGetPromiseHelperTask",
    "maybeGetParseTask", "maybeGetFreeDelazifyTask", "maybeGetDelazifyTask",
    "maybeGetCompressionTask", "maybeGetLowPrioIonCompileTask",
    "maybeGetIonFreeTask", "maybeGetWasmTier2CompileTask",
    "maybeGetWasmTier2GeneratorTask">>

Position(name) == CHOOSE i \in 1..Len(ListedOrder) : ListedOrder[i] = name

\* The selectors listed above the one named.
Above(name) ==
  {ListedOrder[i] : i \in 1..(Position(name) - 1)}

RunningMasters(h) ==
  Cardinality({i \in 1..Len(h.helperTasks) :
                 tasks[h.helperTasks[i]].kind \in MasterKinds})

(***************************************************************************)
(* Claims.                                                                   *)
(***************************************************************************)

\* C2 (as stated): every task that has been submitted and is neither
\* reclaimed nor destroyed is in exactly one of: its kind's worklist, the
\* running registry, a finished list.  A task handed to its cleanup task
\* counts as reclaimed; a compression task still on the pending list has
\* not been submitted yet.
C2_ExactlyOneContainer ==
  \A t \in TaskIds :
    (/\ tasks[t].fate \in {"live", "leaked"}
     /\ t \notin Range(hts.compressionPendingList))
      => ContainerCount(hts, t) = 1

\* C3 (as stated): a task returned by findHighestPriorityTask is of a kind
\* whose admission predicate held when the call was made and is in no
\* worklist any more; if no admission predicate held, the call returned
\* null and changed nothing.
C3_ReturnedKindWasAdmitted ==
  pick.called =>
    /\ pick.task # NoTask =>
         /\ tasks[pick.task].kind \in pick.pre
         /\ ~InSomeWorklist(hts, pick.task)
    /\ pick.pre = {} => (pick.task = NoTask /\ pick.same)

\* C4 (as stated): the number of running master-kind tasks is always
\* strictly less than threadCount.
C4_MasterNeverTakesLastWorker == RunningMasters(hts) < hts.threadCount

\* C5: for every master kind, canStart is false whenever
\* threadCount - totalCountRunningTasks <= 1.
C5_MasterNotAdmittedOnLastIdle ==
  \A k \in MasterKinds :
    hts.threadCount - hts.totalCountRunningTasks <= 1 => ~canStart(hts, k)

\* C5 witness: threadCount = 2, a master-kind task is running and the
\* worklist of a master kind is non-empty.
C5_Witness ==
  /\ hts.threadCount = 2
  /\ RunningMasters(hts) = 1
  /\ hts.totalCountRunningTasks = 1
  /\ \E k \in MasterKinds : WorklistOf(hts, k) # <<>>

\* C6: findHighestPriorityTask returns the task of the first selector, in
\* the listed order, that yields one, and null if none yields.
C6_FirstYieldingSelectorWins ==
  pick.called =>
    IF pick.yield = {}
      THEN pick.task = NoTask
      ELSE /\ pick.task # NoTask
           /\ pick.name \in pick.yield
           /\ Above(pick.name) \cap pick.yield = {}
           /\ tasks[pick.task].kind = SelectorKind(pick.name)

\* C6 witness: a GC-parallel task and a parse task were both selectable with
\* all workers idle, and the call returned the GC-parallel task.
C6_Witness ==
  /\ pick.called
  /\ pick.name = "maybeGetGCParallelTask"
  /\ "maybeGetParseTask" \in pick.yield
  /\ hts.totalCountRunningTasks = 1

\* C7 (as stated): when findHighestPriorityTask returns a task of kind K,
\* canStart(J) is false for every kind J listed above K.
C7_NoHigherKindAdmissible ==
  (pick.called /\ pick.task # NoTask) =>
    \A n \in Above(pick.name) : SelectorKind(n) \notin pick.pre

\* C7 (amended): when findHighestPriorityTask returns a task of kind K,
\* canStart(J) is false for every kind J listed above K other than
\* JIT-compile; for the JIT-compile selector, if listed above K, either
\* canStartIonCompileTask is false or no queued Ion task has its main
\* thread running JS.
C7_NoHigherSelectorYields ==
  (pick.called /\ pick.task # NoTask) =>
    \A n \in Above(pick.name) :
      IF n = "maybeGetIonCompileTask"
        THEN n \notin pick.yield
        ELSE SelectorKind(n) \notin pick.pre

\* C7 witness: a parse task was returned although canStartIonCompileTask
\* held (no queued Ion task had its main thread running JS).
C7_Witness ==
  /\ pick.called
  /\ pick.name = "maybeGetParseTask"
  /\ ION \in pick.pre

IonIn(h, t) ==
  \/ t \in Range(h.ionWorklist)
  \/ t \in Range(h.helperTasks)
  \/ t \in Range(h.ionFinishedList)

\* C8: when CancelOffThreadIonCompile(selector) returns, no matching
\* IonCompileTask is in the Ion worklist, the registry or the Ion finished
\* list; the matches that were queued at the call have never run; and while
\* the caller waits, every running match has its cancel flag set.
C8_IonCancelComplete ==
  /\ (prod.pc = "ret" /\ prod.op = "CancelOffThreadIonCompile") =>
       /\ \A t \in TaskIds :
            (tasks[t].kind = ION /\ IonCompileTaskMatches(prod.sel, t))
              => ~IonIn(hts, t)
       /\ \A t \in prod.moved :
            ~tasks[t].ran /\ tasks[t].fate = "destroyed"
  /\ prod.pc = "ionWait" =>
       \A t \in RunningIonMatches(hts, prod.sel) : tasks[t].cancel

\* C8 witness: the call has returned after removing a match that was queued
\* and waiting for a match that was running.
C8_Witness ==
  /\ prod.pc = "ret"
  /\ prod.op = "CancelOffThreadIonCompile"
  /\ prod.moved # {}
  /\ prod.waited
  /\ \E t \in TaskIds :
       /\ IonCompileTaskMatches(prod.sel, t)
       /\ tasks[t].cancel
       /\ tasks[t].fate = "destroyed"

\* C1: no task is entered twice in helperTasks, and a task that is in
\* helperTasks is in no worklist, so no second worker can pick it; this
\* includes a DelazifyTask that has put itself back on its worklist.
C1_RegisteredAtMostOnce ==
  /\ NoDup(hts.helperTasks)
  /\ \A t \in Range(hts.helperTasks) : ~InSomeWorklist(hts, t)

\* C1 witness: a DelazifyTask that re-queued itself is running for the
\* second time while another task is running too.
C1_Witness ==
  \E t \in Range(hts.helperTasks) :
    /\ tasks[t].kind = DELAZIFY
    /\ tasks[t].runs = 2
    /\ Len(hts.helperTasks) = 2

C12_AtLeastTwoThreads == hts.isInitialized_ => hts.threadCount >= 2

\* C13: the thread count the constructor computes from a probed CPU count c
\* is max(min(c, 8), 2): 8 for every c > 8 and 2 for every c < 2.
C13_DefaultThreadCount ==
  prod.op = "GlobalHelperThreadState" =>
    LET c == prod.sel.v
    IN /\ hts.threadCount = Max(Min(c, 8), 2)
       /\ c > 8 => hts.threadCount = 8
       /\ c < 2 => hts.threadCount = 2

\* C13 witness: a machine reporting more than 8 CPUs has been constructed
\* with 8 threads.
C13_Witness ==
  /\ prod.op = "GlobalHelperThreadState"
  /\ prod.sel.v > 8
  /\ hts.threadCount = 8

\* C11 (as stated): when waitForAllTasksLocked returns, every worklist is
\* empty, tasksPending_ is 0 and helperTasks is empty, for every permitted
\* thread count.
C11_AllIdleAtReturn ==
  (prod.pc = "ret" /\ prod.op = "waitForAllTasksLocked") =>
    /\ \A k \in ThreadTypes : WorklistOf(hts, k) = <<>>
    /\ hts.tasksPending_ = 0
    /\ hts.helperTasks = <<>>
\* C14: a selection from a worklist of a LIFO kind (parse, compression,
\* JIT-free, free-delazify) returns the task at the back, the one submitted
\* last; a selection from a worklist of a FIFO kind (delazify, GC-parallel)
\* returns the task at the front, the one submitted first.  Every submitTask
\* appends at the back, so with A submitted before B to an empty worklist
\* the worklist is <<A, B>>.
LIFOSelectors == {"maybeGetParseTask", "maybeGetCompressionTask",
                  "maybeGetIonFreeTask", "maybeGetFreeDelazifyTask"}

FIFOSelectors == {"maybeGetDelazifyTask", "maybeGetGCParallelTask"}

C14_LifoFifoOrder ==
  (pick.called /\ pick.task # NoTask) =>
    /\ pick.name \in LIFOSelectors => pick.task = Last(pick.from)
    /\ pick.name \in FIFOSelectors => pick.task = Head(pick.from)

C14_Witness ==
  /\ pick.called
  /\ pick.name = "maybeGetParseTask"
  /\ Len(pick.from) = 2
  /\ pick.from[1] < pick.from[2]
  /\ pick.task = pick.from[2]

C16_QueuedLeavesBySelectOrCancel ==
  [][\A k \in ThreadTypes : \A t \in Range(WorklistOf(hts, k)) :
       t \notin Range(WorklistOf(hts', k)) =>
         \/ pick'.called /\ pick'.task = t
         \/ prod'.op = "cancelParseTask" /\ t \in prod'.moved]_vars

\* C16 (amended): a task leaves its worklist only by being returned from
\* findHighestPriorityTask, by a cancel operation called by a producer, or,
\* for a queued wasm tier-2 generator task, by the tier-2 generator cancel
\* that waitForAllTasks and finish run before they wait, which deletes it.
C16_QueuedLeavesBySelectCancelOrWaitAll ==
  [][\A k \in ThreadTypes : \A t \in Range(WorklistOf(hts, k)) :
       t \notin Range(WorklistOf(hts', k)) =>
         \/ pick'.called /\ pick'.task = t
         \/ prod'.op = "cancelParseTask" /\ t \in prod'.moved
         \/ /\ prod'.op \in {"waitForAllTasksLocked", "finish"}
            /\ ProducerFree
            /\ k = WASM_GENERATOR_TIER2
            /\ tasks'[t].fate = "destroyed"]_vars

C16_Witness ==
  /\ prod.pc = "done"
  /\ prod.op = "finish"
  /\ prod.waited
  /\ hts.terminating_
  /\ \E t \in TaskIds :
       /\ tasks[t].kind = WASM_GENERATOR_TIER2
       /\ tasks[t].fate = "destroyed"
       /\ ~tasks[t].ran
  /\ \E t \in TaskIds : tasks[t].kind = ION_FREE /\ tasks[t].ran

\* C17: a parse task that cancelParseTask finds in the parse worklist is
\* removed from it, is in no container at the return nor at any later time,
\* and has never been in the running registry, so its callback, which only
\* its run invokes, was never called; and a task enters the running
\* registry only in the step in which findHighestPriorityTask returned it.
C17_QueuedParseCancelled ==
  /\ [](/\ (prod.pc = "ret" /\ prod.op = "cancelParseTask") =>
            \A t \in prod.moved :
              /\ t \notin Range(hts.parseWorklist)
              /\ t \notin Range(hts.helperTasks)
              /\ t \notin Range(hts.parseFinishedList)
              /\ ~tasks[t].ran
              /\ tasks[t].runs = 0
              /\ tasks[t].fate = "destroyed"
        /\ \A t \in TaskIds :
             (tasks[t].kind = PARSE /\ tasks[t].fate = "destroyed"
                /\ ~tasks[t].ran) => ContainerCount(hts, t) = 0)
  /\ [][\A t \in Range(hts'.helperTasks) :
          t \notin Range(hts.helperTasks) =>
            pick'.called /\ pick'.task = t]_vars

C17_Witness ==
  /\ prod.pc = "ret"
  /\ prod.op = "cancelParseTask"
  /\ prod.moved # {}
  /\ hts.parseWorklist # <<>>
  /\ \A t \in prod.moved : tasks[t].fate = "destroyed" /\ ~tasks[t].ran

\* C18: tasksPending_ is never negative and never exceeds threadCount;
\* whenever a dispatch callback is outstanding, so that runOneTask can be
\* called, tasksPending_ is positive; and tasksPending_ grows only together
\* with the number of callbacks issued, in steps that end with
\* canStartTasks true and tasksPending_ within threadCount.
C18_TasksPendingBounded ==
  /\ [](/\ 0 <= hts.tasksPending_
        /\ hts.tasksPending_ <= hts.threadCount
        /\ hts.pendingCallbacks > 0 => hts.tasksPending_ > 0)
  /\ [][/\ hts'.tasksPending_ - hts.tasksPending_
            = hts'.pendingCallbacks - hts.pendingCallbacks
        /\ hts'.tasksPending_ > hts.tasksPending_ =>
             canStartTasks(hts') /\ hts.tasksPending_ < hts.threadCount]_vars

C18_Witness ==
  /\ hts.tasksPending_ = hts.threadCount
  /\ hts.threadCount >= 2
  /\ canStartTasks(hts)
  /\ hts.helperTasks # <<>>

\* C19: at most one wasm tier-2 generator task and at most one source
\* compression task are in helperTasks, and the counters of running tasks
\* of the two kinds agree.
Running(h, kind) == {i \in 1..Len(h.helperTasks) :
                       tasks[h.helperTasks[i]].kind = kind}

C19_OneGeneratorOneCompression ==
  \A kind \in {WASM_GENERATOR_TIER2, COMPRESS} :
    /\ Cardinality(Running(hts, kind)) <= 1
    /\ hts.runningTaskCount[kind] = Cardinality(Running(hts, kind))

C19_Witness ==
  /\ Cardinality(Running(hts, COMPRESS)) = 1
  /\ hts.compressionWorklist # <<>>
  /\ Len(hts.helperTasks) = 1
  /\ hts.threadCount = 3
  /\ pick.called
  /\ pick.task = NoTask

\* ceil(n / 3) and the limits of the two tiers.
Ceil3(n) == CHOOSE q \in 0..n : 3 * q >= n /\ 3 * (q - 1) < n

WasmLimit(h, mode) ==
  LET cap == IF h.cpuCount < h.threadCount THEN h.cpuCount ELSE h.threadCount
  IN IF Len(h.wasmTier2GeneratorWorklist) > 20
       THEN (IF mode = WASM_COMPILE_TIER1 THEN 0 ELSE cap)
       ELSE (IF mode = WASM_COMPILE_TIER1 THEN cap ELSE Ceil3(h.cpuCount))

\* C20 (as stated): while more than 20 tier-2 generator tasks are queued the
\* tier-1 admission predicate is false and at most min(cpuCount,
\* threadCount) tier-2 compile tasks run; otherwise at most min(cpuCount,
\* threadCount) tier-1 tasks run and the tier-2 admission predicate holds
\* only while fewer than ceil(cpuCount / 3) tier-2 compile tasks run.
C20_Tier2AdmittedBelowThird ==
  LET cap == Min(hts.cpuCount, hts.threadCount)
  IN IF Len(hts.wasmTier2GeneratorWorklist) > 20
       THEN /\ ~canStart(hts, WASM_COMPILE_TIER1)
            /\ Cardinality(Running(hts, WASM_COMPILE_TIER2)) <= cap
       ELSE /\ Cardinality(Running(hts, WASM_COMPILE_TIER1)) <= cap
            /\ canStart(hts, WASM_COMPILE_TIER2) =>
                 Cardinality(Running(hts, WASM_COMPILE_TIER2))
                   < Ceil3(hts.cpuCount)

\* C20 (amended): while more than 20 tier-2 generator tasks are queued the
\* tier-1 admission predicate is false and no tier-1 compile task is
\* selected, and a tier-2 compile task is selected only while fewer than
\* min(cpuCount, threadCount) of them run; otherwise a tier-1 task is
\* selected only while fewer than min(cpuCount, threadCount) of them run and
\* a tier-2 task only while fewer than ceil(cpuCount / 3) of them run.  The
\* admission predicate of a tier implies that fewer tasks than its limit run
\* whenever the limit is below threadCount.
C20_WasmCompileAdmission ==
  /\ Len(hts.wasmTier2GeneratorWorklist) > 20 =>
       ~canStart(hts, WASM_COMPILE_TIER1)
  /\ \A mode \in WasmCompileKinds :
       /\ (WasmLimit(hts, mode) < hts.threadCount /\ canStart(hts, mode)) =>
            Cardinality(Running(hts, mode)) < WasmLimit(hts, mode)
       /\ (pick.called /\ pick.task # NoTask
             /\ tasks[pick.task].kind = mode) =>
            /\ mode \in pick.pre
            /\ Cardinality(Running(hts, mode)) - 1 < WasmLimit(hts, mode)

C20_Witness ==
  /\ pick.called
  /\ pick.task # NoTask
  /\ tasks[pick.task].kind = WASM_COMPILE_TIER2
  /\ Len(hts.wasmTier2GeneratorWorklist) > 20
  /\ hts.wasmWorklist_tier1 # <<>>
  /\ Cardinality(Running(hts, WASM_COMPILE_TIER2)) = 2
  /\ Ceil3(hts.cpuCount) = 1

\* The selectors that call highestPriorityPendingIonCompile.
IonSelectorNames == {"maybeGetIonCompileTask", "maybeGetLowPrioIonCompileTask"}

\* warmUpCount() / length() in unsigned integer division.
IonPriority(t) == tasks[t].warm \div tasks[t].len

\* The indices of the worklist wl highestPriorityPendingIonCompile considers
\* when called by the selector name with the runtimes js running JS.
IonEligible(wl, name, js) ==
  {i \in 1..Len(wl) :
     name = "maybeGetLowPrioIonCompileTask" \/ tasks[wl[i]].rt \in js}

\* C21: the task highestPriorityPendingIonCompile returns is, among the
\* eligible tasks of the Ion worklist (all of them for the low-priority
\* selector, those whose main thread is running JS otherwise), one whose
\* warm-up count divided by script length in integer division is maximal,
\* the one of lowest index among equals; it is removed from the worklist
\* and all the other tasks stay, in their order.
C21_IonHighestPriorityReturned ==
  (pick.called /\ pick.name \in IonSelectorNames) =>
    LET wl == pick.from
        elig == IonEligible(wl, pick.name, pick.js)
    IN /\ \E i \in elig :
            /\ wl[i] = pick.task
            /\ \A j \in elig :
                 /\ IonPriority(wl[j]) <= IonPriority(wl[i])
                 /\ IonPriority(wl[j]) = IonPriority(wl[i]) => i <= j
       /\ hts.ionWorklist = SelectSeq(wl, LAMBDA t : t # pick.task)

\* Three tasks are queued; the one returned is the second, the first is
\* eligible with a lower priority, and the third is eligible with the same
\* integer quotient from a larger exact ratio.
C21_Witness ==
  /\ pick.called
  /\ pick.name = "maybeGetIonCompileTask"
  /\ Len(pick.from) = 3
  /\ pick.task = pick.from[2]
  /\ IonEligible(pick.from, pick.name, pick.js) = {1, 2, 3}
  /\ IonPriority(pick.from[1]) < IonPriority(pick.from[2])
  /\ IonPriority(pick.from[3]) = IonPriority(pick.from[2])
  /\ tasks[pick.from[3]].warm * tasks[pick.from[2]].len
       > tasks[pick.from[2]].warm * tasks[pick.from[3]].len
  /\ hts.ionWorklist = <<pick.from[1], pick.from[3]>>

\* C22: in every state between two sections that hold the lock, every
\* IonCompileTask of the Ion worklist has its LifoAlloc read-only: after
\* submitTask, after trace (which restores the protection of each task it
\* visits), and after a cancel, which makes mutable only the tasks it moves
\* out of the worklist in the same section.
C22_QueuedIonArenaReadOnly ==
  \A t \in Range(hts.ionWorklist) : tasks[t].readOnly

\* trace has just visited a queued task, which is read-only again, and an
\* earlier cancel has taken another task from the worklist before it ever
\* ran, making its LifoAlloc mutable.
C22_Witness ==
  /\ prod.pc = "ret"
  /\ prod.op = "trace"
  /\ prod.moved # {}
  /\ prod.moved = Range(hts.ionWorklist)
  /\ \E t \in TaskIds :
       /\ tasks[t].kind = ION
       /\ ~tasks[t].ran
       /\ ~tasks[t].readOnly
       /\ t \notin Range(hts.ionWorklist)

RECURSIVE SumRunningTaskCount(_, _)
\* The sum of runningTaskCount[kind] over the kinds of the set S.
SumRunningTaskCount(h, S) ==
  IF S = {} THEN 0
  ELSE LET k == CHOOSE x \in S : TRUE
       IN h.runningTaskCount[k] + SumRunningTaskCount(h, S \ {k})

\* C23: between two sections that hold the lock, the registry helperTasks
\* holds exactly the tasks whose runHelperThreadTask call is in progress,
\* each once; totalCountRunningTasks is the length of the registry and the
\* sum of runningTaskCount over the kinds, and runningTaskCount[kind] is the
\* number of registered tasks of that kind.
C23_RegistryIsRunningTasks ==
  /\ \A t \in TaskIds : tasks[t].inRun <=> t \in Range(hts.helperTasks)
  /\ NoDup(hts.helperTasks)
  /\ hts.totalCountRunningTasks = Len(hts.helperTasks)
  /\ hts.totalCountRunningTasks = SumRunningTaskCount(hts, ThreadTypes)
  /\ \A k \in ThreadTypes : hts.runningTaskCount[k] = Cardinality(Running(hts, k))

\* One task is running after another task has run and returned.
C23_Witness ==
  /\ Len(hts.helperTasks) = 1
  /\ hts.totalCountRunningTasks = 1
  /\ \E t \in TaskIds :
       /\ tasks[t].ran
       /\ ~tasks[t].inRun
       /\ tasks[t].kind # tasks[hts.helperTasks[1]].kind
       /\ hts.runningTaskCount[tasks[t].kind] = 0

\* C24: once ensureInitialized has succeeded, threadCount, cpuCount, the
\* dispatch callback and the choice between the internal pool and the
\* external callback never change; and once a dispatch callback is
\* installed neither it nor threadCount nor cpuCount changes (the callback
\* is set at most once and setCpuCount is not called after it), whatever
\* is submitted, run or shut down afterwards.
C24_ConfigurationFixedAfterInit ==
  [][/\ hts.isInitialized_ =>
          /\ hts'.threadCount = hts.threadCount
          /\ hts'.cpuCount = hts.cpuCount
          /\ hts'.dispatchTaskCallback = hts.dispatchTaskCallback
          /\ hts'.useInternalThreadPool_ = hts.useInternalThreadPool_
     /\ hts.dispatchTaskCallback =>
          /\ hts'.dispatchTaskCallback
          /\ hts'.threadCount = hts.threadCount
          /\ hts'.cpuCount = hts.cpuCount]_vars

\* EnsureHelperThreadsInitialized has been called again on a state that
\* uses the internal pool, with a CPU count set by SetFakeCPUCount, after a
\* task has run.
C24_Witness ==
  /\ prod.pc = "ret"
  /\ prod.op = "EnsureHelperThreadsInitialized"
  /\ hts.isInitialized_
  /\ hts.useInternalThreadPool_
  /\ hts.cpuCount = 4
  /\ \E t \in TaskIds : tasks[t].ran /\ ~tasks[t].inRun

\* The tasks that leave the registry in this step.
LeavingRegistry ==
  {t \in Range(hts.helperTasks) : t \notin Range(hts'.helperTasks)}

\* C25: the step in which a parse task leaves the registry is the step that
\* invokes its callback, for the first and only time, and appends it to the
\* parse finished list; a parse task that has run and has not been taken by
\* its producer since is on the parse finished list and its callback has
\* been invoked once.  The step in which a FreeDelazifyTask leaves the
\* registry deletes it and the DelazifyTask it holds, and a
\* FreeDelazifyTask is never on a finished list.
C25_ParseFinishedFreeDelazifyDeleted ==
  /\ [](\A t \in TaskIds :
          /\ (tasks[t].kind = PARSE /\ tasks[t].ran /\ ~tasks[t].inRun
                 /\ tasks[t].fate = "live") =>
               (Occurrences(hts.parseFinishedList, t) = 1
                  /\ tasks[t].callbacks = 1)
          /\ (tasks[t].kind = PARSE /\ (~tasks[t].ran \/ tasks[t].inRun)) =>
               (tasks[t].callbacks = 0 /\ t \notin Range(hts.parseFinishedList))
          /\ tasks[t].kind = DELAZIFY_FREE =>
               \A l \in FinishedLists(hts) : t \notin Range(l))
  /\ [][\A t \in LeavingRegistry :
          /\ tasks[t].kind = PARSE =>
               /\ tasks'[t].callbacks = tasks[t].callbacks + 1
               /\ hts'.parseFinishedList = Append(hts.parseFinishedList, t)
          /\ tasks[t].kind = DELAZIFY_FREE =>
               /\ tasks'[t].fate = "destroyed"
               /\ tasks'[tasks[t].of].fate = "destroyed"]_vars

\* A parse task has run and lies on the parse finished list with its
\* callback invoked once, and a FreeDelazifyTask has run and is deleted.
C25_Witness ==
  /\ \E t \in Range(hts.parseFinishedList) :
       tasks[t].callbacks = 1 /\ tasks[t].ran /\ ~tasks[t].inRun
  /\ \E f \in TaskIds :
       /\ tasks[f].kind = DELAZIFY_FREE
       /\ tasks[f].ran
       /\ tasks[f].fate = "destroyed"
  /\ hts.helperTasks = <<>>

C27_QueuedTaskEventuallyLeaves ==
  /\ \A t \in 1..MaxTasks :
       (t \in TaskIds /\ InSomeWorklist(hts, t))
         ~> (t \in TaskIds /\ ~InSomeWorklist(hts, t))
  /\ [][\A t \in TaskIds :
          (InSomeWorklist(hts, t) /\ ~InSomeWorklist(hts', t))
            => \/ tasks'[t].inRun /\ tasks'[t].runs = tasks[t].runs + 1
               \/ /\ prod'.op = "CancelOffThreadIonCompile"
                  /\ t \in prod'.moved]_vars

\* With two threads, a parse task is running after another task has run and
\* finished, and no task is left in a worklist.
C27_Witness ==
  /\ hts.threadCount >= 2
  /\ \E t \in TaskIds, u \in TaskIds :
       /\ t # u
       /\ tasks[t].kind = PARSE
       /\ tasks[t].inRun
       /\ tasks[u].runs > 0
       /\ ~tasks[u].inRun
       /\ ~InSomeWorklist(hts, u)
  /\ \A t \in TaskIds : ~InSomeWorklist(hts, t)

\* The tasks of list that do not belong to runtime rt, in order.
OtherRuntimes(list, rt) == SelectSeq(list, LAMBDA t : tasks[t].rt # rt)

\* The state right after CancelOffThreadParses has returned.
CancelParsesReturned(p) == p.op = "CancelOffThreadParses" /\ p.pc = "ret"

\* The parse tasks of runtime rt.
ParseTasksOf(rt) ==
  {t \in TaskIds : tasks[t].kind = PARSE /\ tasks[t].rt = rt}

\* C28: CancelOffThreadParses(rt) removes no queued parse task; when it
\* returns, every parse task of rt that was queued or running at the call
\* has been run to completion, no parse task of rt is in the parse
\* worklist, the registry or the parse finished list, and the call left the
\* parse tasks of other runtimes where they were.
C28_CancelParsesWaitsAndCleans ==
  /\ [](CancelParsesReturned(prod) =>
          /\ \A t \in prod.moved :
               /\ tasks[t].runs = 1
               /\ tasks[t].callbacks = 1
               /\ ~tasks[t].inRun
          /\ \A t \in ParseTasksOf(prod.sel.v) :
               /\ t \notin Range(hts.parseWorklist)
               /\ t \notin Range(hts.helperTasks)
               /\ t \notin Range(hts.parseFinishedList))
  /\ [][/\ \A t \in Range(hts.parseWorklist) \ Range(hts'.parseWorklist) :
             tasks'[t].inRun /\ t \in Range(hts'.helperTasks)
         /\ (CancelParsesReturned(prod') =>
               /\ hts'.parseWorklist = hts.parseWorklist
               /\ hts'.helperTasks = hts.helperTasks
               /\ hts'.parseFinishedList =
                    OtherRuntimes(hts.parseFinishedList, prod'.sel.v))
         /\ (prod'.pc = "parsesWait" => (hts' = hts \/ prod' = prod))]_vars

\* CancelOffThreadParses has returned after waiting for two parse tasks of
\* its runtime, while a parse task of the other runtime is still queued or
\* finished.
C28_Witness ==
  /\ prod.pc = "ret"
  /\ prod.op = "CancelOffThreadParses"
  /\ prod.waited
  /\ Cardinality(prod.moved) = 2
  /\ \E t \in TaskIds :
       /\ tasks[t].rt # prod.sel.v
       /\ t \in Range(hts.parseWorklist) \cup Range(hts.parseFinishedList)

\* The state right after cancelParseTask has returned.
CancelParseTaskReturned(p) == p.op = "cancelParseTask" /\ p.pc = "ret"

\* C29: cancelParseTask called while the designated parse task is running
\* blocks until the task has left the registry, then takes it off the parse
\* finished list and destroys it; after the return the task is in no
\* worklist, not in the registry and on no finished list, whatever its
\* state was at the call.
C29_CancelParseTaskWaitsForRunning ==
  /\ [](CancelParseTaskReturned(prod) =>
          /\ ~InSomeWorklist(hts, prod.sel.v)
          /\ prod.sel.v \notin Range(hts.helperTasks)
          /\ \A list \in FinishedLists(hts) : prod.sel.v \notin Range(list)
          /\ tasks[prod.sel.v].fate = "destroyed"
          /\ (prod.waited =>
                /\ tasks[prod.sel.v].runs = 1
                /\ ~tasks[prod.sel.v].inRun))
  /\ [][/\ (CancelParseTaskReturned(prod') =>
               /\ prod'.sel.v \notin Range(hts.helperTasks)
               /\ (prod'.waited =>
                     /\ prod'.sel.v \in Range(hts.parseFinishedList)
                     /\ prod'.sel.v \notin Range(hts'.parseFinishedList)))
         /\ (/\ ProducerFree
             /\ prod'.op = "cancelParseTask"
             /\ prod'.sel.v \in Range(hts.helperTasks)
             => prod'.pc = "parseWait" /\ hts' = hts)
         /\ (prod.pc = "parseWait" /\ prod.sel.v \in Range(hts'.helperTasks)
             => prod' = prod)]_vars

\* cancelParseTask has returned after it waited for its task, which ran and
\* is destroyed.
C29_Witness ==
  /\ CancelParseTaskReturned(prod)
  /\ prod.waited
  /\ tasks[prod.sel.v].runs = 1
  /\ tasks[prod.sel.v].fate = "destroyed"

\* The state right after CancelOffThreadCompressions has returned.
CancelCompressionsReturned(p) ==
  p.op = "CancelOffThreadCompressions" /\ p.pc = "ret"

\* The compression tasks of a runtime.
CompressionTasksOf(runtime) ==
  {t \in TaskIds : tasks[t].kind = COMPRESS /\ tasks[t].rt = runtime}

\* The four places a compression task can be in.
CompressionContainers(h) ==
  Range(h.compressionPendingList) \cup Range(h.compressionWorklist)
    \cup Range(h.helperTasks) \cup Range(h.compressionFinishedList)

\* C30: when CancelOffThreadCompressions(rt) returns, no compression task of
\* rt is in the pending list, the worklist, the registry or the finished
\* list; the tasks of rt that were pending or queued at the call leave their
\* list in the calling step, never run and never come back.
C30_CancelCompressionsCleans ==
  /\ [](CancelCompressionsReturned(prod) =>
          /\ CompressionTasksOf(prod.sel.v) \cap CompressionContainers(hts)
               = {}
          /\ \A t \in CompressionTasksOf(prod.sel.v) :
               tasks[t].fate = "destroyed")
  /\ [](prod.op = "CancelOffThreadCompressions" =>
          \A t \in prod.moved :
            /\ tasks[t].runs = 0
            /\ ~tasks[t].inRun
            /\ t \notin CompressionContainers(hts))
  /\ [][(ProducerFree /\ prod'.op = "CancelOffThreadCompressions") =>
          /\ prod'.moved =
               CompressionTasksOf(prod'.sel.v)
                 \cap (Range(hts.compressionPendingList)
                        \cup Range(hts.compressionWorklist))
          /\ Range(hts'.compressionPendingList) =
               Range(hts.compressionPendingList) \ prod'.moved
          /\ Range(hts'.compressionWorklist) =
               Range(hts.compressionWorklist) \ prod'.moved
          /\ hts'.helperTasks = hts.helperTasks]_vars
  /\ [][\A t \in TaskIds :
          (tasks[t].kind = COMPRESS /\ tasks[t].fate = "destroyed")
            => tasks'[t] = tasks[t]]_vars

\* CancelOffThreadCompressions has returned after it removed a pending or
\* queued task of its runtime and waited for a running one, while a
\* compression task of the other runtime is still in a list.
C30_Witness ==
  /\ CancelCompressionsReturned(prod)
  /\ prod.waited
  /\ prod.moved # {}
  /\ \E t \in TaskIds :
       /\ tasks[t].rt # prod.sel.v
       /\ t \in CompressionContainers(hts)

\* The state right after CancelOffThreadWasmTier2Generator has returned.
Tier2CancelReturned(p) ==
  p.op = "CancelOffThreadWasmTier2Generator" /\ p.pc = "ret"

\* C31: when CancelOffThreadWasmTier2Generator returns on the initialized
\* state, the tier-2 generator worklist is empty, every generator task that
\* was queued has been deleted without running, and the generator task that
\* was running at the call has its cancel flag set and has finished: the
\* finished-generator counter is past its value at the call.
C31_Tier2CancelEmptiesAndWaits ==
  /\ [](Tier2CancelReturned(prod) =>
          /\ hts.wasmTier2GeneratorWorklist = <<>>
          /\ \A t \in prod.moved :
               /\ tasks[t].fate = "destroyed"
               /\ tasks[t].runs = 0
               /\ t \notin Range(hts.helperTasks)
          /\ (prod.sel.st # NoTask =>
                /\ prod.waited
                /\ tasks[prod.sel.st].cancel
                /\ tasks[prod.sel.st].runs = 1
                /\ ~tasks[prod.sel.st].inRun
                /\ prod.sel.st \notin Range(hts.helperTasks)
                /\ hts.wasmTier2GeneratorsFinished_ > prod.sel.v))
  /\ [][(ProducerFree /\ prod'.op = "CancelOffThreadWasmTier2Generator") =>
          /\ prod'.moved = Range(hts.wasmTier2GeneratorWorklist)
          /\ hts'.wasmTier2GeneratorWorklist = <<>>
          /\ (RunningTier2Generators(hts) # {} =>
                /\ prod'.pc = "t2CancelWait"
                /\ prod'.sel.st \in RunningTier2Generators(hts)
                /\ tasks'[prod'.sel.st].cancel)]_vars

\* CancelOffThreadWasmTier2Generator has returned after it deleted a queued
\* generator task and waited for the running one.
C31_Witness ==
  /\ Tier2CancelReturned(prod)
  /\ prod.moved # {}
  /\ prod.sel.st # NoTask
  /\ hts.wasmTier2GeneratorsFinished_ > prod.sel.v

\* C32: once finishThreads has set terminating_, RunHelperThreadTask selects
\* and runs nothing, so no task goes from a worklist to the registry
\* afterwards; terminating_ is set only in the step in which the wait loop of
\* waitForAllTasksLocked has ended, and that step of finish leaves the
\* Ion-free list empty.
C32_NothingRunsAfterTerminating ==
  /\ [][hts.terminating_ =>
          /\ hts'.terminating_
          /\ hts'.helperTasks = hts.helperTasks
          /\ hts'.tasksPending_ >= hts.tasksPending_
          /\ \A t \in TaskIds :
               /\ tasks'[t].runs = tasks[t].runs
               /\ InSomeWorklist(hts, t) => InSomeWorklist(hts', t)]_vars
  /\ [][(~hts.terminating_ /\ hts'.terminating_) =>
          /\ ~canStartTasks(hts)
          /\ hts.tasksPending_ = 0
          /\ hts.helperTasks = <<>>
          /\ prod'.op = "finish"
          /\ prod'.pc = "done"
          /\ hts'.ionFreeList = <<>>]_vars
  /\ [](hts.terminating_ => hts.helperTasks = <<>>)

\* After finish, a late submission has been dispatched and its callback has
\* returned without running the task, which is still queued.
C32_Witness ==
  /\ hts.terminating_
  /\ hts.tasksPending_ > 0
  /\ hts.pendingCallbacks = 0
  /\ \E t \in TaskIds : InSomeWorklist(hts, t) /\ tasks[t].runs = 0

\* The selectors listed between the two Ion selectors.
BetweenIonSelectors ==
  {"maybeGetWasmTier1CompileTask", "maybeGetPromiseHelperTask",
   "maybeGetParseTask", "maybeGetFreeDelazifyTask", "maybeGetDelazifyTask",
   "maybeGetCompressionTask"}

\* The state runOneTask hands to findHighestPriorityTask when it is called
\* on state h.
AtSelection(h) ==
  [h EXCEPT !.tasksPending_ = @ - 1, !.pendingCallbacks = @ - 1]

\* C33: maybeGetIonCompileTask returns only a queued Ion task whose main
\* thread is running JS, taking it off the worklist, and returns null with
\* the worklist unchanged when no queued task qualifies; an Ion task whose
\* main thread is not running JS is started only by
\* maybeGetLowPrioIonCompileTask, in a call in which the selectors listed
\* between the two Ion selectors all yield nothing.
C33_IonNotRunningJSOnlyLowPrio ==
  /\ [](\A js \in SUBSET Runtimes :
          LET r == maybeGetIonCompileTask(hts, js)
              qualifies == {t \in Range(hts.ionWorklist) : tasks[t].rt \in js}
          IN /\ r.task = NoTask => r.h = hts
             /\ qualifies = {} => r.task = NoTask
             /\ r.task # NoTask =>
                  /\ r.task \in qualifies
                  /\ r.h.ionWorklist = EraseIfEqual(hts.ionWorklist, r.task))
  /\ [][\A t \in TaskIds :
          (/\ tasks[t].kind = ION
           /\ t \notin Range(hts.helperTasks)
           /\ t \in Range(hts'.helperTasks)
           /\ tasks[t].rt \notin pick'.js)
            => /\ pick'.name = "maybeGetLowPrioIonCompileTask"
               /\ pick'.task = t
               /\ \A n \in BetweenIonSelectors :
                    CallSelector(n, AtSelection(hts), pick'.js).task = NoTask
               /\ maybeGetIonCompileTask(AtSelection(hts), pick'.js).task
                    = NoTask]_vars

\* An Ion task whose main thread was not running JS has just been started by
\* the low-priority selector while another Ion task stays queued.
C33_Witness ==
  /\ pick.called
  /\ pick.name = "maybeGetLowPrioIonCompileTask"
  /\ tasks[pick.task].rt \notin pick.js
  /\ pick.task \in Range(hts.helperTasks)
  /\ hts.ionWorklist # <<>>

\* The pending tasks a call of startHandlingCompressionTasks qualifies: all
\* of them in API mode, in GC mode those of the runtime that report
\* shouldStart.
Qualifying(h, api, sched) ==
  {t \in Range(h.compressionPendingList) :
     api \/ (tasks[t].rt = sched.rt /\ t \in sched.ss)}

\* The calls of startHandlingCompressionTasks possible on the current state:
\* the mode, the runtime, the tasks reporting shouldStart and the tasks whose
\* append fails.
StartHandlingCalls ==
  {[api |-> api, sched |-> [rt |-> rt, ss |-> ss], oom |-> oom] :
     api \in BOOLEAN, rt \in Runtimes,
     ss \in SUBSET Range(hts.compressionPendingList),
     oom \in SUBSET Range(hts.compressionPendingList)}

\* A compression task enters the worklist only out of the pending list and
\* enters the registry only out of the worklist.
CompressionPath ==
  \A t \in TaskIds :
    tasks[t].kind = COMPRESS =>
      /\ (t \notin Range(hts.compressionWorklist)
          /\ t \in Range(hts'.compressionWorklist))
           => /\ t \in Range(hts.compressionPendingList)
              /\ t \notin Range(hts'.compressionPendingList)
      /\ (t \notin Range(hts.helperTasks) /\ t \in Range(hts'.helperTasks))
           => t \in Range(hts.compressionWorklist)

\* C34 (as stated): a pending compression task reaches a worker only through
\* the worklist, where only startHandlingCompressionTasks puts it; that call
\* moves exactly the qualifying pending tasks to the worklist (in API mode
\* all of them) and a moved task is no longer pending.
C34_StartHandlingMovesQualifying ==
  /\ [][CompressionPath]_vars
  /\ [](\A c \in StartHandlingCalls :
          LET h1 == startHandlingCompressionTasks(hts, c.api, c.sched, c.oom)
              q == Qualifying(hts, c.api, c.sched)
          IN /\ Range(h1.compressionWorklist) =
                  Range(hts.compressionWorklist) \cup q
             /\ Range(h1.compressionPendingList) =
                  Range(hts.compressionPendingList) \ q)

\* C34 (amended): as above, except that a qualifying task whose append to
\* the worklist fails is not moved: it leaves the pending list and is in no
\* list afterwards.
C34_StartHandlingMovesOrDrops ==
  /\ [][CompressionPath]_vars
  /\ [](\A c \in StartHandlingCalls :
          LET h1 == startHandlingCompressionTasks(hts, c.api, c.sched, c.oom)
              q == Qualifying(hts, c.api, c.sched)
          IN /\ Range(h1.compressionWorklist) =
                  Range(hts.compressionWorklist) \cup (q \ c.oom)
             /\ Range(h1.compressionPendingList) =
                  Range(hts.compressionPendingList) \ q
             /\ Len(h1.compressionWorklist) + Len(h1.compressionPendingList)
                  = Len(hts.compressionWorklist)
                      + Len(hts.compressionPendingList)
                      - Cardinality(q \cap c.oom)
             /\ h1.helperTasks = hts.helperTasks)

\* RunPendingSourceCompressions has just submitted the pending tasks in API
\* mode: one was moved to the worklist, the append of another failed and
\* that task is deleted, and nothing is pending.
C34_Witness ==
  /\ prod.op = "RunPendingSourceCompressions"
  /\ prod.pc = "rpWorklistWait"
  /\ hts.compressionPendingList = <<>>
  /\ hts.helperTasks = <<>>
  /\ \E t \in TaskIds, u \in TaskIds :
       /\ tasks[t].kind = COMPRESS
       /\ tasks[t].fate = "destroyed"
       /\ tasks[t].runs = 0
       /\ u \in Range(hts.compressionWorklist)
       /\ tasks[u].runs = 0

\* The state right after RunPendingSourceCompressions has returned.
RunPendingReturned(p) ==
  p.op = "RunPendingSourceCompressions" /\ p.pc = "ret"

\* C35: when RunPendingSourceCompressions(rt) returns, the compression
\* pending list and the compression worklist are empty, the registry is
\* empty and no compression task of rt is in the compression finished list:
\* each one that ran was taken off it and completed; a call that waits
\* returns if the workers are scheduled fairly.
C35_RunPendingDrainsAndAttaches ==
  /\ [](RunPendingReturned(prod) =>
          /\ hts.compressionPendingList = <<>>
          /\ hts.compressionWorklist = <<>>
          /\ hts.helperTasks = <<>>
          /\ \A t \in CompressionTasksOf(prod.sel.v) :
               /\ t \notin Range(hts.compressionFinishedList)
               /\ tasks[t].fate \in {"reclaimed", "destroyed"}
               /\ (tasks[t].fate = "reclaimed" <=> tasks[t].runs = 1))
  /\ [][RunPendingReturned(prod') =>
          /\ Range(hts'.compressionFinishedList) =
               Range(hts.compressionFinishedList)
                 \ CompressionTasksOf(prod'.sel.v)
          /\ \A t \in Range(hts.compressionFinishedList) :
               tasks[t].rt = prod'.sel.v => tasks'[t].fate = "reclaimed"]_vars
  /\ ((prod.op = "RunPendingSourceCompressions" /\ prod.pc # "ret")
        ~> RunPendingReturned(prod))

\* RunPendingSourceCompressions has returned after waiting, with a task of
\* its runtime run and completed and a task of the other runtime left on the
\* finished list.
C35_Witness ==
  /\ RunPendingReturned(prod)
  /\ prod.waited
  /\ \E t \in CompressionTasksOf(prod.sel.v) :
       tasks[t].fate = "reclaimed" /\ tasks[t].runs = 1
  /\ hts.compressionFinishedList # <<>>

(***************************************************************************)
(* Wake-ups: a backlog of tier-2 generators beside wasm compile tasks, and   *)
(* the cancel of the generators.                                             *)
(***************************************************************************)
\* <<cpuCount, threadCount>>: one thread, and more.
WakeConfigs == {<<2, 1>>, <<2, 2>>, <<3, 3>>}

\* The compile tasks the producer submits, by ordinal.
WakeBatch == {1, 2}

InitWake ==
  /\ \E c \in WakeConfigs, n \in Backlogs :
       /\ hts = StartOffThreadWasmTier2Generators(
                  EnsureInitialized(
                    setDispatchTaskCallback(Constructed(c[1]), c[2])), n)
       /\ tasks = [i \in 1..n |->
                     NewTask(WASM_GENERATOR_TIER2, 0, 0, 0, 0, 0, NoTask)]
  /\ prod = Idle
  /\ pick = NoPick

StartOffThreadWasmCompileWake ==
  /\ Cardinality({t \in TaskIds : tasks[t].kind \in WasmCompileKinds}) + 1
       \in WakeBatch
  /\ \E mode \in WasmCompileKinds :
       SubmitTask(NewTask(mode, 0, 0, 0, 0, 0, NoTask))

NextWake ==
  \/ StartOffThreadWasmCompileWake
  \/ TaskStart
  \/ TaskReturn
  \/ CancelOffThreadWasmTier2Generator
  \/ CancelOffThreadWasmTier2GeneratorWake
  \/ WaitForAllHelperThreads
  \/ WaitForAllHelperThreadsWake

SpecWake == InitWake /\ [][NextWake]_vars

\* C36: whenever the lock is free and canStartTasks holds, tasksPending_ is
\* positive or a task is in the running registry, cancel operations
\* included.
C36_NoLostWakeup ==
  canStartTasks(hts) => (hts.tasksPending_ > 0 \/ hts.helperTasks # <<>>)

\* The same with two threads or more.
C36_NoLostWakeupTwoThreads ==
  hts.threadCount >= 2 => C36_NoLostWakeup

AnyWorklistNonEmpty(h) == \E k \in ThreadTypes : WorklistOf(h, k) # <<>>

\* The wait loop of waitForAllTasksLocked ends in this step.
WaitAllLoopExits(p, q) ==
  /\ q.op \in {"waitForAllTasksLocked", "finish"}
  /\ q.pc \in {"ret", "done"}
  /\ ~(p.op = q.op /\ p.pc = q.pc)

\* C37: with threadCount >= 2 and cpuCount >= 2, an empty registry and a
\* non-empty worklist imply canStartTasks, and the wait loop of
\* waitForAllTasksLocked ends only with every worklist empty.
C37_NoStallWithWorkQueued ==
  /\ []((/\ hts.threadCount >= 2
         /\ hts.cpuCount >= 2
         /\ hts.helperTasks = <<>>
         /\ AnyWorklistNonEmpty(hts)) => canStartTasks(hts))
  /\ [][(/\ hts.threadCount >= 2
         /\ hts.cpuCount >= 2
         /\ WaitAllLoopExits(prod, prod'))
          => (/\ ~AnyWorklistNonEmpty(hts')
              /\ \A k \in ThreadTypes \ {WASM_GENERATOR_TIER2} :
                   WorklistOf(hts, k) = <<>>)]_vars

\* All workers are idle with more than 20 generators and a tier-1 compile
\* task queued: the tier-1 task is not admissible, the generator is.
C37_Witness ==
  /\ hts.threadCount >= 2
  /\ hts.helperTasks = <<>>
  /\ Len(hts.wasmTier2GeneratorWorklist) > Tier2Backlog
  /\ hts.wasmWorklist_tier1 # <<>>
  /\ ~canStartWasmTier1CompileTask(hts)
  /\ canStartTasks(hts)

\* C38: whenever canStartTasks holds, findHighestPriorityTask returns a
\* task, whichever main threads are running JS; an admissible Ion worklist
\* that the high-priority selector passes over is served by the low-priority
\* one; a worker that found nothing was called with no kind admissible.
C38_AdmissibleWorkIsFound ==
  /\ \A js \in SUBSET Runtimes :
       /\ canStartTasks(hts) => findHighestPriorityTask(hts, js).task # NoTask
       /\ (/\ canStartIonCompileTask(hts)
           /\ maybeGetIonCompileTask(hts, js).task = NoTask)
            => maybeGetLowPrioIonCompileTask(hts, js).task # NoTask
  /\ (pick.called /\ pick.task = NoTask) => pick.pre = {}

\* A worker has just been served by the low-priority Ion selector: Ion was
\* admissible and no queued Ion task had its main thread running JS.
C38_Witness ==
  /\ pick.called
  /\ pick.name = "maybeGetLowPrioIonCompileTask"
  /\ ION \in pick.pre
  /\ pick.from # <<>>
  /\ \A t \in Range(pick.from) : tasks[t].rt \notin pick.js

(***************************************************************************)
(* The three cancel operations beside Ion, compression and parse tasks.      *)
(***************************************************************************)
\* The tasks the producer submits, by ordinal: all of one kind, up to
\* three compression tasks or parse tasks, or two Ion tasks.
CancelsBatch == {1, 2, 3}

SubmitCancels ==
  /\ NumSubmitted + 1 \in CancelsBatch
  /\ \E obj \in Shapes(ION) \cup Shapes(COMPRESS) \cup ParseShapes :
       /\ KindsSubmitted \subseteq {obj.kind}
       /\ obj.kind = ION => NumSubmitted < MaxTasks
       /\ SubmitTask(obj)

\* Each cancel operation is called beside tasks of its own kind.
NextCancels ==
  \/ SubmitCancels
  \/ StartHandlingCompressionsOnGC
  \/ TaskStart
  \/ TaskReturn
  \/ (KindsSubmitted = {ION} /\ CancelOffThreadIonCompile)
  \/ CancelOffThreadIonCompileWake
  \/ (KindsSubmitted = {COMPRESS} /\ CancelOffThreadCompressions)
  \/ CancelOffThreadCompressionsWake
  \/ (KindsSubmitted = {PARSE} /\ CancelParseTask)
  \/ CancelParseTaskWake

SpecCancels == Init /\ [][NextCancels]_vars

\* A step of one of the three cancel operations, the call up to its first
\* wait or its return or a wake-up in its wait loop: the producer is in the
\* operation afterwards and no worker has moved (TaskStart answers a
\* callback, TaskReturn leaves the registry).
CancelStep ==
  /\ prod'.op \in {"CancelOffThreadIonCompile", "CancelOffThreadCompressions",
                   "cancelParseTask"}
  /\ hts'.pendingCallbacks = hts.pendingCallbacks
  /\ hts'.helperTasks = hts.helperTasks

\* The task t matches the selector, runtime or token of the cancel operation
\* the producer p is in.
CancelMatches(p, t) ==
  CASE p.op = "CancelOffThreadIonCompile" ->
         tasks[t].kind = ION /\ IonCompileTaskMatches(p.sel, t)
    [] p.op = "CancelOffThreadCompressions" ->
         tasks[t].kind = COMPRESS /\ tasks[t].rt = p.sel.v
    [] p.op = "cancelParseTask" -> t = p.sel.v
    [] OTHER -> FALSE

\* The names of the containers: the worklists by kind, the registry, the
\* finished lists and the compression pending list.
ContainerNames ==
  ThreadTypes \cup {"helperTasks", "ionFinishedList", "parseFinishedList",
                    "compressionFinishedList", "compressionPendingList"}

Container(h, c) ==
  CASE c = "helperTasks" -> h.helperTasks
    [] c = "ionFinishedList" -> h.ionFinishedList
    [] c = "parseFinishedList" -> h.parseFinishedList
    [] c = "compressionFinishedList" -> h.compressionFinishedList
    [] c = "compressionPendingList" -> h.compressionPendingList
    [] OTHER -> WorklistOf(h, c)

InContainer(h, c, t) ==
  LET s == Container(h, c) IN \E i \in 1..Len(s) : s[i] = t

\* The containers a cancel operation takes queued tasks from.
QueuedContainers == {ION, COMPRESS, PARSE, "compressionPendingList"}

\* C39: a step of CancelOffThreadIonCompile, CancelOffThreadCompressions or
\* cancelParseTask leaves every non-matching task in the same container,
\* once, with its record unchanged (not run, not finished, not destroyed),
\* and leaves no matching task queued.
C39_CancelRemovesExactlyMatching ==
  [][CancelStep =>
       \A t \in TaskIds :
         IF CancelMatches(prod', t)
           THEN \A c \in QueuedContainers : ~InContainer(hts', c, t)
           ELSE /\ tasks'[t] = tasks[t]
                /\ \A c \in ContainerNames :
                     InContainer(hts', c, t) <=> InContainer(hts, c, t)
    ]_vars

\* A cancel has just returned having removed two queued tasks while a
\* non-matching task of the same kind stays queued.
C39_Witness ==
  /\ prod.pc = "ret"
  /\ prod.op \in {"CancelOffThreadIonCompile", "CancelOffThreadCompressions"}
  /\ Cardinality(prod.moved) = 2
  /\ \E t \in TaskIds :
       /\ ~CancelMatches(prod, t)
       /\ \E u \in prod.moved : tasks[u].kind = tasks[t].kind
       /\ \E c \in QueuedContainers : InContainer(hts, c, t)

(***************************************************************************)
(* The cancel and wait operations called between                            *)
(* js::CreateHelperThreadsState and js::EnsureHelperThreadsInitialized.      *)
(***************************************************************************)
NotInitialized == Created /\ ~hts.isInitialized_

NextUninit ==
  \/ NextConfig
  \/ (NotInitialized /\ CancelOffThreadIonCompile)
  \/ (NotInitialized /\ CancelOffThreadWasmTier2Generator)
  \/ (NotInitialized /\ CancelOffThreadParses)
  \/ (NotInitialized /\ CancelOffThreadDelazify)
  \/ (NotInitialized /\ WaitForAllDelazifyTasks)

SpecUninit == InitNotCreated /\ [][NextUninit]_vars

UninitOps ==
  {"CancelOffThreadIonCompile", "CancelOffThreadWasmTier2Generator",
   "CancelOffThreadParses", "CancelOffThreadDelazify",
   "WaitForAllDelazifyTasks"}

\* C40: called while the state is not initialized, CancelOffThreadIonCompile,
\* CancelOffThreadWasmTier2Generator, CancelOffThreadParses,
\* CancelOffThreadDelazify and WaitForAllDelazifyTasks return without
\* waiting and leave the coordinator and the tasks as they were.
C40_NotInitializedReturnsAtOnce ==
  /\ []((~hts.isInitialized_ /\ prod.op \in UninitOps) => prod.pc = "ret")
  /\ [][(~hts.isInitialized_ /\ prod'.op \in UninitOps)
          => (/\ prod'.pc = "ret"
              /\ ~prod'.waited
              /\ prod'.moved = {}
              /\ hts' = hts
              /\ tasks' = tasks)]_vars

\* CancelOffThreadDelazify has just returned on a state that exists and is
\* not initialized.
C40_Witness ==
  /\ NotInitialized
  /\ prod.op = "CancelOffThreadDelazify"
  /\ prod.pc = "ret"
  /\ ~prod.waited

====
